---- MODULE Spec2Model ----
(***************************************************************************)
(* Model of the watermark-remover front end: the App component             *)
(* (src/src/App.tsx) and the useWatermarkRemoval hook                      *)
(* (src/src/hooks/useWatermarkRemoval.ts).                                 *)
(*                                                                         *)
(* A step of the model is one macrotask of the JavaScript event loop: a    *)
(* user event handler up to its first await that leaves the frontend, or   *)
(* the arrival of a backend response together with every continuation      *)
(* (microtask) it resumes.  React state is the set of variables; a         *)
(* handler started by a click closes over the state of the last render,    *)
(* which is the state at the time of the click.                            *)
(***************************************************************************)
EXTENDS Integers, Sequences, FiniteSets, TLC

\* ------------------------------------------------------------ bounds ----
MaxFiles == 2        \* longest batch list
MaxSelections == 2   \* batch selections (each reads the clock for its ids)
MaxCalls == 3        \* backend processing calls issued in one behaviour
MaxPolls == 1        \* get_video_progress requests in flight at once
MaxCancels == 1      \* cancel_video_processing requests in flight at once
TotalFrames == 2     \* frames of the video being processed
MaxSize == 12        \* largest file size (bytes) shown in the preview
MaxSaves == 1
MaxSelected == 3      \* files picked in one file dialog
MaxElapsed == 15     \* seconds the progress panel counts

\* ------------------------------------------------------------ values ----
NULL == "null"

\* the error message the n-th backend processing call rejects with
ErrorMessage(n) == "error in call " \o ToString(n)

Regions == {"r1"}

\* ways one backend inpainting call (remove_watermark) settles: with a
\* result, with a rejection carrying a message, or without a result
CallKinds == {"result", "reject", "empty"}
CallOutcome(kind, n) ==
    [kind |-> kind, msg |-> IF kind = "reject" THEN ErrorMessage(n) ELSE NULL]

\* scratch path the backend returns for its n-th processing call
TempPath(n) == "tmp" \o ToString(n)

\* useWatermarkRemoval.ts DEFAULT_OPTIONS (lines 52-58)
DEFAULT_OPTIONS ==
    [algorithm |-> "telea", dilate_pixels |-> 3, inpaint_radius |-> 5,
     processing_method |-> "local", lossless |-> FALSE]

\* App.tsx DEFAULT_OPTIONS (lines 16-21): no lossless field
AppDefaultOptions ==
    [algorithm |-> "telea", dilate_pixels |-> 3, inpaint_radius |-> 5,
     processing_method |-> "local"]

\* ------------------------------------------------------------- state ----
VARIABLES
    caller,          \* "App": the App component drives the hook;
                     \* "processBatch": a caller drives the hook's processBatch
    \* App.tsx useState
    stage, mediaType, imagePath, imageBase64, imageInfo, selectedRegion,
    processedImage, processedPath, batchFiles, batchProgress, options,
    isSettingsOpen, originalSize, processedSize,
    \* useWatermarkRemoval.ts useState / useRef; intervals: the timers
    \* started by setInterval and not cleared
    isProcessing, error, videoProgress, progressIntervalRef, intervals, hasApiKey,
    \* component state: RegionSelector.tsx, PreviewPanel, VideoProgress.tsx
    regionSelector, previewPanel, videoProgressPanel,
    dropZone,        \* ImageDropZone.tsx: the last selection of the file
                     \* dialog and the callback it led to
    \* asynchronous work in flight
    batchRuns,       \* batch runs suspended at their await
    imageRuns,       \* single-image removeWatermark calls awaited by the App
    videoRuns,       \* processVideo calls in flight, with the backend job
    polls,           \* get_video_progress requests in flight
    cancels,         \* cancel_video_processing requests in flight
    keyChecks,       \* answers to get_gemini_api_key on their way back
    \* environment
    credential,      \* the key held by the credential store, "" if none
    now,             \* Date.now() as read by the batch selections so far
    ncalls,          \* backend processing calls issued so far
    \* history
    finished,        \* the batch run that ended in the last step, if any
    lastVideo,       \* the video run that ended in the last step, if any
    lastImage,       \* the removeWatermark call of the App that settled in
                     \* the last step, if any
    dispatched,      \* the backend processing command sent in the last
                     \* step, if any
    cleanupRequested,\* cleanup_temp_files was sent in the last step
    \* Save All
    saveRuns,        \* handleSaveBatch calls suspended at an await
    copyRequested,   \* the save_processed_image request sent in the last
                     \* step, if any
    saveAlert,       \* the alert shown in the last step, if any
    cleanedCalls     \* history: the processing calls issued before the last
                     \* cleanup_temp_files request

vars == <<caller, stage, mediaType, imagePath, imageBase64, imageInfo,
          selectedRegion, processedImage, processedPath, batchFiles,
          batchProgress, isProcessing, error, videoProgress,
          progressIntervalRef, intervals, batchRuns, imageRuns, videoRuns, polls,
          cancels, now, ncalls, finished, lastVideo, options,
          isSettingsOpen, hasApiKey, regionSelector, previewPanel,
          videoProgressPanel, keyChecks, credential, lastImage, dispatched,
          cleanupRequested, originalSize, processedSize, saveRuns,
          copyRequested, saveAlert, dropZone, cleanedCalls>>

videoVars == <<videoProgress, progressIntervalRef, intervals, videoRuns, polls, cancels>>
envVars == <<caller, now>>
settingsVars == <<isSettingsOpen, hasApiKey, keyChecks, credential>>
componentVars == <<regionSelector, previewPanel, videoProgressPanel, dropZone>>
sizeVars == <<originalSize, processedSize>>

\* clearInterval(progressIntervalRef.current) on the timers that run; the
\* ref is 0 when it is null
ClearInterval(live, ref) == live \ {ref}

\* a step of anything but Save All: no save run moves, nothing is copied
NoSaving ==
    /\ UNCHANGED saveRuns
    /\ copyRequested' = <<>>
    /\ saveAlert' = <<>>

\* a step that ends no run leaves no ended run behind
NoRunEnds == finished' = <<>> /\ lastVideo' = <<>> /\ lastImage' = <<>>

\* a step that sends no processing command and no cleanup request
NoDispatch == dispatched' = <<>>
NoCleanup == cleanupRequested' = FALSE
NoEffects == NoRunEnds /\ NoDispatch /\ NoCleanup

\* ----------------------------------------------------- batch helpers ----
\* a path is the sequence of its '/'-separated segments
SelectedPath(k) == <<"in", "img" \o ToString(k) \o ".png">>

\* path.split('/').pop() || `file-${index}`
FileName(path, index) ==
    IF Len(path) > 0 /\ path[Len(path)] # ""
        THEN path[Len(path)]
        ELSE "file-" \o ToString(index)

\* one entry of paths.map((path, index) => ...) in handleBatchSelect
NewBatchFile(path, index, t) ==
    [id |-> "file-" \o ToString(index) \o "-" \o ToString(t),
     path |-> path,
     filename |-> FileName(path, index),
     status |-> "pending",
     error |-> NULL,
     processedPath |-> NULL]

\* { ...f, ...update }
Merge(f, update) ==
    [k \in DOMAIN f |-> IF k \in DOMAIN update THEN update[k] ELSE f[k]]

\* const mergedOptions = { ...DEFAULT_OPTIONS, ...options }
MergedOptions(given) == Merge(DEFAULT_OPTIONS, given)

\* mutant: the method is not looked at, the local command is always invoked
RemoveWatermarkCommandLocal(given) == "remove_watermark"

\* removeWatermark lines 103-118: the backend command it invokes
RemoveWatermarkCommand(given) ==
    IF MergedOptions(given).processing_method = "cloud"
        THEN "remove_watermark_cloud"
        ELSE "remove_watermark"

\* processBatch lines 312-324: the backend command it invokes; the options
\* are passed on as given
ProcessBatchCommand(given) ==
    IF "processing_method" \in DOMAIN given /\ given.processing_method = "cloud"
        THEN "remove_watermark_cloud"
        ELSE "remove_watermark"

\* one invoke of a backend processing command: call is its number, given
\* the options the caller handed over, options the options sent
Dispatch(call, command, path, region, given, sent) ==
    [call |-> call, command |-> command, imagePath |-> path,
     region |-> region, given |-> given, options |-> sent]

\* invoke as issued by removeWatermark, by processBatch and by processVideo
RemoveWatermarkDispatch(call, path, region, given) ==
    Dispatch(call, RemoveWatermarkCommand(given), path, region, given,
             MergedOptions(given))
ProcessBatchDispatch(call, path, region, given) ==
    Dispatch(call, ProcessBatchCommand(given), path, region, given, given)
ProcessVideoDispatch(call, path, region, given) ==
    Dispatch(call, "process_video", path, region, given, MergedOptions(given))

\* mutant: the update is merged into every item, the id is not compared
HandleBatchFileUpdateAll(files, id, update) ==
    [k \in DOMAIN files |-> Merge(files[k], update)]

\* setBatchFiles(prev => prev.map(f => f.id === id ? {...f, ...update} : f))
HandleBatchFileUpdate(files, id, update) ==
    [k \in DOMAIN files |->
        IF files[k].id = id THEN Merge(files[k], update) ELSE files[k]]

\* setBatchFiles(prev => prev.filter(f => f.id !== id))
RemoveById(files, id) == SelectSeq(files, LAMBDA f : f.id # id)

\* mutant: only completed items are skipped, failed ones are tried again
EligibleRetry(f) == ~(f.status = "completed")

\* mutant: nothing is skipped
EligibleAlways(f) == TRUE

\* the loop's skip test: an item already completed or failed is skipped
Eligible(f) == ~(f.status = "completed" \/ f.status = "failed")

\* first position >= from the loop does not skip, Len(files) + 1 if none
NextEligible(files, from) ==
    IF \E j \in from..Len(files) : Eligible(files[j])
        THEN CHOOSE j \in from..Len(files) :
                /\ Eligible(files[j])
                /\ \A k \in from..(j - 1) : ~Eligible(files[k])
        ELSE Len(files) + 1

EligibleCount(files) == Cardinality({k \in DOMAIN files : Eligible(files[k])})

\* mutant: the completed update does not carry the output path
AppResultUpdateNoPath(outcome, path, capErr) ==
    IF outcome.kind = "result"
        THEN [status |-> "completed"]
        ELSE [status |-> "failed",
              error |-> IF capErr # NULL /\ capErr # ""
                            THEN capErr ELSE "Processing failed"]

\* update the runner emits for the result of one dispatcher call
\* App.tsx: result ? completed : failed with (error || 'Processing failed')
AppResultUpdate(outcome, path, capErr) ==
    IF outcome.kind = "result"
        THEN [status |-> "completed", processedPath |-> path]
        ELSE [status |-> "failed",
              error |-> IF capErr # NULL /\ capErr # ""
                            THEN capErr ELSE "Processing failed"]

\* useWatermarkRemoval.ts processBatch: result / no result / catch
HookResultUpdate(outcome, path) ==
    IF outcome.kind = "result"
        THEN [status |-> "completed", processedPath |-> path]
        ELSE IF outcome.kind = "empty"
            THEN [status |-> "failed", error |-> "Processing returned no result"]
            ELSE [status |-> "failed", error |-> outcome.msg]

\* a batch run: its runner, the list it iterates (the closure's batchFiles
\* / the files argument), the position and number of the call it awaits,
\* the error value its closure captured; log and results are history: the
\* effects the run has emitted and the outcomes of its dispatcher calls
\* region and options are the values the closure captured (the arguments
\* of processBatch)
NewRun(runner, files, capErr, region, opts) ==
    [runner |-> runner, files |-> files, i |-> 0, call |-> 0,
     capErr |-> capErr, region |-> region, options |-> opts,
     log |-> <<>>, results |-> <<>>, args |-> <<>>]
NoRun == NewRun(NULL, <<>>, NULL, NULL, <<>>)

\* mutant: each call reads the region and options currently selected
CallArgsCurrent(r, curRegion, curOptions) ==
    [region |-> curRegion, options |-> curOptions]

\* the region and options a run hands to the call of each item: those of
\* its closure (App.tsx line 182) / its arguments (processBatch 312-323)
CallArgs(r, curRegion, curOptions) ==
    [region |-> r.region, options |-> r.options]

\* -------------------------------------------------------------- Init ----
NullPath == <<>>
LoadError == "load error"

\* lists a caller can hand to processBatch: items as left by earlier runs
PriorPath(k) == "prev" \o ToString(k)
PriorFile(k, st) ==
    Merge(NewBatchFile(SelectedPath(k), k - 1, 0),
          IF st = "completed"
              THEN [status |-> st, processedPath |-> PriorPath(k)]
              ELSE IF st = "failed"
                  THEN [status |-> st, error |-> "io error"]
                  ELSE [status |-> st])

InitApp ==
    /\ stage = "upload"
    /\ mediaType = "image"
    /\ imagePath = NullPath
    /\ imageBase64 = NULL
    /\ imageInfo = NULL
    /\ processedImage = NULL
    /\ processedPath = NULL
    /\ batchProgress = <<>>
    /\ isProcessing = FALSE
    /\ error = NULL
    /\ videoProgress = <<>>
    /\ progressIntervalRef = 0
    /\ intervals = {}
    /\ batchRuns = {}
    /\ imageRuns = {}
    /\ videoRuns = {}
    /\ polls = {}
    /\ cancels = [sent |-> 0, acked |-> 0]
    /\ now = 0
    /\ ncalls = 0
    /\ finished = <<>>
    /\ lastVideo = <<>>
    /\ lastImage = <<>>
    /\ dispatched = <<>>
    /\ cleanupRequested = FALSE
    /\ isSettingsOpen = FALSE
    /\ originalSize = <<>>
    /\ processedSize = <<>>
    /\ saveRuns = {}
    /\ copyRequested = <<>>
    /\ saveAlert = <<>>
    /\ dropZone = <<>>
    /\ cleanedCalls = 0

\* the components are modelled on their own, see the component sections
InitCommon ==
    /\ InitApp
    /\ regionSelector = <<>>
    /\ previewPanel = <<>>
    /\ videoProgressPanel = <<>>

\* the credential store is empty, the check of the mount effect has been
\* answered and the options are the defaults
Init ==
    /\ InitCommon
    /\ options = AppDefaultOptions
    /\ credential = ""
    /\ hasApiKey = FALSE
    /\ keyChecks = {}
    /\ \/ /\ caller = "App"
          /\ selectedRegion = NULL
          /\ batchFiles = <<>>
       \/ /\ caller = "processBatch"
          /\ selectedRegion \in Regions
          /\ \E n \in 1..MaxFiles :
               \E st \in [1..n -> {"pending", "completed", "failed"}] :
                  batchFiles = [k \in 1..n |-> PriorFile(k, st[k])]

\* ------------------------------------------------ App: user handlers ----
\* App.tsx handleBatchSelect for the paths handed over by the drop zone,
\* with the outcome of its two loads
HandleBatchSelect(paths, outcome) ==
    /\ caller = "App"
    /\ ~isSettingsOpen
    /\ stage = "upload"
    /\ now < MaxSelections
    /\ now' = now + 1
    /\ batchFiles' = [k \in DOMAIN paths |->
                         NewBatchFile(paths[k], k - 1, now + 1)]
    /\ IF outcome = "noInfo"
         THEN /\ error' = LoadError
              /\ UNCHANGED <<imageInfo, imageBase64, imagePath, mediaType, stage,
                             selectedRegion, processedImage, processedPath>>
         ELSE IF outcome = "noData"
           THEN /\ error' = LoadError
                /\ imageInfo' = "info"
                /\ UNCHANGED <<imageBase64, imagePath, mediaType, stage,
                               selectedRegion, processedImage, processedPath>>
           ELSE /\ error' = NULL
                /\ imageInfo' = "info"
                /\ imageBase64' = "data"
                /\ imagePath' = paths[1]
                /\ mediaType' = "image"
                /\ stage' = "batch-select"
                /\ selectedRegion' = NULL
                /\ processedImage' = NULL
                /\ processedPath' = NULL
    /\ UNCHANGED <<caller, batchProgress, isProcessing, batchRuns, imageRuns,
                   ncalls, options>>
    /\ UNCHANGED videoVars
    /\ UNCHANGED settingsVars
    /\ UNCHANGED componentVars
    /\ UNCHANGED sizeVars
    /\ NoSaving
    /\ UNCHANGED cleanedCalls
    /\ NoEffects


\* App.tsx handleMediaSelect, with the outcome of its two loads
HandleMediaSelect(type, outcome) ==
    /\ caller = "App"
    /\ ~isSettingsOpen
    /\ stage = "upload"
    /\ imagePath' = IF type = "video" THEN <<"in", "clip.mp4">> ELSE SelectedPath(1)
    /\ mediaType' = type
    /\ IF outcome = "noInfo"
         THEN /\ error' = LoadError
              /\ UNCHANGED <<imageInfo, imageBase64, stage, selectedRegion,
                             processedImage, processedPath>>
         ELSE IF outcome = "noData"
           THEN /\ error' = LoadError
                /\ imageInfo' = IF type = "video" THEN imageInfo ELSE "info"
                /\ UNCHANGED <<imageBase64, stage, selectedRegion,
                               processedImage, processedPath>>
           ELSE /\ error' = NULL
                /\ imageInfo' = "info"
                /\ imageBase64' = "data"
                /\ stage' = "select"
                /\ selectedRegion' = NULL
                /\ processedImage' = NULL
                /\ processedPath' = NULL
    /\ UNCHANGED <<caller, now, batchFiles, batchProgress, isProcessing,
                   batchRuns, imageRuns, ncalls, options>>
    /\ UNCHANGED videoVars
    /\ UNCHANGED settingsVars
    /\ UNCHANGED componentVars
    /\ UNCHANGED sizeVars
    /\ NoSaving
    /\ UNCHANGED cleanedCalls
    /\ NoEffects

\* App.tsx handleRegionSelect, reached through an enabled RegionSelector
HandleRegionSelect(r) ==
    /\ caller = "App"
    /\ ~isSettingsOpen
    /\ stage \in {"select", "batch-select"}
    /\ imageBase64 # NULL /\ imageInfo # NULL
    /\ ~isProcessing
    /\ selectedRegion' = r
    /\ UNCHANGED <<stage, mediaType, imagePath, imageBase64, imageInfo,
                   processedImage, processedPath, batchFiles, batchProgress,
                   isProcessing, error, batchRuns, imageRuns, ncalls, options>>
    /\ UNCHANGED videoVars
    /\ UNCHANGED envVars
    /\ UNCHANGED settingsVars
    /\ UNCHANGED componentVars
    /\ UNCHANGED sizeVars
    /\ NoSaving
    /\ UNCHANGED cleanedCalls
    /\ NoEffects

\* App.tsx handleRemoveBatchFile: the remove button of a pending item in a
\* BatchQueuePanel rendered with isProcessing = false
HandleRemoveBatchFile(k) ==
    /\ caller = "App"
    /\ ~isSettingsOpen
    /\ \/ stage = "batch-select" /\ imageBase64 # NULL /\ imageInfo # NULL
       \/ stage = "batch-results"
    /\ k \in DOMAIN batchFiles
    /\ batchFiles[k].status = "pending"
    /\ batchFiles' = RemoveById(batchFiles, batchFiles[k].id)
    /\ UNCHANGED <<batchProgress, isProcessing, error, batchRuns, imageRuns,
                   ncalls>>
    /\ UNCHANGED <<stage, mediaType, imagePath, imageBase64, imageInfo,
                 selectedRegion, processedImage, processedPath, options>>
    /\ UNCHANGED videoVars
    /\ UNCHANGED envVars
    /\ UNCHANGED settingsVars
    /\ UNCHANGED componentVars
    /\ UNCHANGED sizeVars
    /\ NoSaving
    /\ UNCHANGED cleanedCalls
    /\ NoEffects

\* the state handleReset sets
ResetState ==
    /\ stage' = "upload"
    /\ mediaType' = "image"
    /\ imagePath' = NullPath
    /\ imageBase64' = NULL
    /\ imageInfo' = NULL
    /\ selectedRegion' = NULL
    /\ processedImage' = NULL
    /\ processedPath' = NULL
    /\ originalSize' = <<>>
    /\ processedSize' = <<>>
    /\ options' = AppDefaultOptions
    /\ batchFiles' = <<>>
    /\ batchProgress' = <<>>
    /\ error' = NULL
    /\ cleanupRequested' = TRUE
    /\ NoSaving
    /\ cleanedCalls' = ncalls
    /\ UNCHANGED <<isProcessing, batchRuns, imageRuns, ncalls>>
    /\ UNCHANGED videoVars
    /\ UNCHANGED envVars
    /\ UNCHANGED settingsVars
    /\ UNCHANGED componentVars
    /\ NoRunEnds
    /\ NoDispatch

\* App.tsx handleReset (New Image button, shown outside the upload stage)
HandleReset ==
    /\ caller = "App"
    /\ ~isSettingsOpen
    /\ stage # "upload"
    /\ ResetState

\* ---------------------------------------------- options and settings ----
Methods == {"local", "cloud"}
Keys == {"", "key"}

\* OptionsPanel.tsx lines 19-29: the processing-method select; it is
\* disabled while processing and its cloud entry is disabled without a key
HandleOptionsChange(m) ==
    /\ caller = "App"
    /\ ~isSettingsOpen
    /\ stage \in {"select", "batch-select"}
    /\ imageBase64 # NULL /\ imageInfo # NULL
    /\ ~isProcessing
    /\ m # options.processing_method
    /\ m = "cloud" => hasApiKey
    /\ options' = [options EXCEPT !.processing_method = m]
    /\ UNCHANGED <<stage, mediaType, imagePath, imageBase64, imageInfo,
                   selectedRegion, processedImage, processedPath, batchFiles,
                   batchProgress, isProcessing, error, batchRuns, imageRuns,
                   ncalls>>
    /\ UNCHANGED videoVars
    /\ UNCHANGED envVars
    /\ UNCHANGED settingsVars
    /\ UNCHANGED componentVars
    /\ UNCHANGED sizeVars
    /\ NoSaving
    /\ UNCHANGED cleanedCalls
    /\ NoEffects

settingsFrame == <<stage, mediaType, imagePath, imageBase64, imageInfo,
                   selectedRegion, processedImage, processedPath, batchFiles,
                   batchProgress, isProcessing, error, batchRuns, imageRuns,
                   ncalls, options>>

\* App.tsx line 367: the Settings button opens the dialog, which covers
\* the window (a click outside it closes it, SettingsModal.tsx line 130)
HandleSettingsOpen ==
    /\ caller = "App"
    /\ ~isSettingsOpen
    /\ isSettingsOpen' = TRUE
    /\ UNCHANGED <<hasApiKey, keyChecks, credential>>
    /\ UNCHANGED settingsFrame
    /\ UNCHANGED videoVars
    /\ UNCHANGED envVars
    /\ UNCHANGED componentVars
    /\ UNCHANGED sizeVars
    /\ NoSaving
    /\ UNCHANGED cleanedCalls
    /\ NoEffects

\* SettingsModal.tsx handleSave (lines 35-49): the Save button, enabled
\* when the text typed differs from the stored key, stores the text
SettingsHandleSave(key) ==
    /\ isSettingsOpen
    /\ key # credential
    /\ credential' = key
    /\ UNCHANGED <<isSettingsOpen, hasApiKey, keyChecks>>
    /\ UNCHANGED settingsFrame
    /\ UNCHANGED videoVars
    /\ UNCHANGED envVars
    /\ UNCHANGED componentVars
    /\ UNCHANGED sizeVars
    /\ NoSaving
    /\ UNCHANGED cleanedCalls
    /\ NoEffects

\* App.tsx handleSettingsClose (lines 63-66): the dialog closes and
\* checkApiKey sends get_gemini_api_key, which the backend answers with
\* the stored key
HandleSettingsClose ==
    /\ isSettingsOpen
    /\ isSettingsOpen' = FALSE
    /\ keyChecks' = keyChecks \cup {credential}
    /\ UNCHANGED <<hasApiKey, credential>>
    /\ UNCHANGED settingsFrame
    /\ UNCHANGED videoVars
    /\ UNCHANGED envVars
    /\ UNCHANGED componentVars
    /\ UNCHANGED sizeVars
    /\ NoSaving
    /\ UNCHANGED cleanedCalls
    /\ NoEffects

\* useWatermarkRemoval.ts checkApiKey lines 71-75: the answer arrives
\* (setHasApiKey(key.length > 0)) or the request fails (setHasApiKey(false))
KeyCheckDone(key, ok) ==
    /\ key \in keyChecks
    /\ keyChecks' = keyChecks \ {key}
    /\ hasApiKey' = (ok /\ key # "")
    /\ UNCHANGED <<isSettingsOpen, credential>>
    /\ UNCHANGED settingsFrame
    /\ UNCHANGED videoVars
    /\ UNCHANGED envVars
    /\ UNCHANGED componentVars
    /\ UNCHANGED sizeVars
    /\ NoSaving
    /\ UNCHANGED cleanedCalls
    /\ NoEffects

\* the App is unmounted: its effect cleanup requests cleanup_temp_files
\* (App.tsx lines 68-73), the hook's clears the polling timer
\* (useWatermarkRemoval.ts lines 83-89); the state of the component is
\* discarded and answers still on their way reach no one
Unmount ==
    /\ caller = "App"
    /\ caller' = NULL
    /\ cleanupRequested' = TRUE
    /\ stage' = "upload"
    /\ mediaType' = "image"
    /\ imagePath' = NullPath
    /\ imageBase64' = NULL
    /\ imageInfo' = NULL
    /\ selectedRegion' = NULL
    /\ processedImage' = NULL
    /\ processedPath' = NULL
    /\ options' = AppDefaultOptions
    /\ batchFiles' = <<>>
    /\ batchProgress' = <<>>
    /\ isProcessing' = FALSE
    /\ error' = NULL
    /\ videoProgress' = <<>>
    /\ progressIntervalRef' = 0
    /\ intervals' = ClearInterval(intervals, progressIntervalRef)
    /\ batchRuns' = {}
    /\ imageRuns' = {}
    /\ videoRuns' = {}
    /\ polls' = {}
    /\ cancels' = [sent |-> 0, acked |-> 0]
    /\ isSettingsOpen' = FALSE
    /\ hasApiKey' = FALSE
    /\ keyChecks' = {}
    /\ now' = 0
    /\ ncalls' = 0
    /\ originalSize' = <<>>
    /\ processedSize' = <<>>
    /\ saveRuns' = {}
    /\ copyRequested' = <<>>
    /\ saveAlert' = <<>>
    /\ cleanedCalls' = 0
    /\ UNCHANGED credential
    /\ UNCHANGED componentVars
    /\ NoRunEnds
    /\ NoDispatch

\* mutant: Back is ignored during a video run only
BackIgnoredVideoOnly(st) == st = "video-processing"

\* handleBack lines 338-340: the stages in which Back returns at once
BackIgnored(st) == st = "video-processing" \/ st = "batch-processing"

\* App.tsx handleBack (Back / Adjust Selection buttons)
HandleBack ==
    /\ caller = "App"
    /\ ~isSettingsOpen
    /\ stage # "upload"
    /\ IF stage = "preview"
         THEN /\ stage' = "select"
              /\ processedImage' = NULL
              /\ processedPath' = NULL
              /\ UNCHANGED <<mediaType, imagePath, imageBase64, imageInfo,
                             selectedRegion, batchFiles, batchProgress,
                             isProcessing, error, batchRuns, imageRuns, ncalls,
                             options>>
              /\ UNCHANGED videoVars
              /\ UNCHANGED envVars
              /\ UNCHANGED settingsVars
              /\ UNCHANGED componentVars
              /\ UNCHANGED sizeVars
              /\ NoSaving
              /\ UNCHANGED cleanedCalls
              /\ NoEffects
         ELSE IF BackIgnored(stage)
           THEN /\ UNCHANGED <<stage, mediaType, imagePath, imageBase64,
                               imageInfo, selectedRegion, processedImage,
                               processedPath, batchFiles, batchProgress,
                               isProcessing, error, batchRuns, imageRuns,
                               ncalls, options>>
                /\ UNCHANGED videoVars
                /\ UNCHANGED envVars
                /\ UNCHANGED settingsVars
                /\ UNCHANGED componentVars
                /\ UNCHANGED sizeVars
                /\ NoSaving
                /\ UNCHANGED cleanedCalls
                /\ NoEffects
           ELSE IF stage = "batch-results"
             THEN /\ stage' = "batch-select"
                  /\ UNCHANGED <<mediaType, imagePath, imageBase64, imageInfo,
                                 selectedRegion, processedImage, processedPath,
                                 batchFiles, batchProgress, isProcessing, error,
                                 batchRuns, imageRuns, ncalls, options>>
                  /\ UNCHANGED videoVars
                  /\ UNCHANGED envVars
                  /\ UNCHANGED settingsVars
                  /\ UNCHANGED componentVars
                  /\ UNCHANGED sizeVars
                  /\ NoSaving
                  /\ UNCHANGED cleanedCalls
                  /\ NoEffects
             ELSE ResetState

\* -------------------------------------------------- progress records ----
\* the record processVideo publishes when a run starts (line 256); src is
\* history: the run whose start or whose poll produced the record
FreshProgress(rid) ==
    [current_frame |-> 0, total_frames |-> 0, percent |-> 0,
     estimated_remaining_secs |-> <<>>, src |-> rid]

\* the record get_video_progress returns while the job of run rid has
\* processed k frames
BackendProgress(rid, k) ==
    [current_frame |-> k, total_frames |-> TotalFrames,
     percent |-> (k * 100) \div TotalFrames,
     estimated_remaining_secs |-> IF k = 0 THEN <<>> ELSE <<TotalFrames - k>>,
     src |-> rid]

\* ------------------------------------------------------ batch runners ----
\* mutant: a failure ends the loop
ResumeFromAbort(r, outcome) ==
    IF outcome.kind = "result" THEN r.i + 1 ELSE Len(r.files) + 1

\* where the for loop goes on after the item at r.i got its result
ResumeFrom(r, outcome) == r.i + 1

\* history: the effects a run emits for one item and for its end
StartEvents(runner, id) ==
    (IF runner = "App" THEN << <<"progress", id>> >> ELSE <<>>)
        \o << <<"update", id, "processing">>, <<"invoke", id>> >>
ResultEvent(id, upd) == <<"update", id, upd.status>>
EndEvents(runner) == IF runner = "App" THEN << <<"clear">> >> ELSE <<>>

\* the run r once the result of the call it awaits has been handled
Settled(r, outcome, upd) ==
    [r EXCEPT !.log = Append(@, ResultEvent(r.files[r.i].id, upd)),
              !.results = Append(@, [id |-> r.files[r.i].id,
                                     kind |-> outcome.kind,
                                     msg |-> outcome.msg,
                                     path |-> TempPath(r.call)])]

\* the run r suspended at the call for position j, made with arguments a
\* (args is history: the region and options each call of the run was given)
Awaiting(r, j, call, a) ==
    [r EXCEPT !.i = j, !.call = call,
              !.log = @ \o StartEvents(r.runner, r.files[j].id),
              !.args = Append(@, a)]

\* the run r after its loop has ended
Ended(r) ==
    [r EXCEPT !.i = Len(r.files) + 1, !.call = 0,
              !.log = @ \o EndEvents(r.runner)]

\* setBatchProgress({currentIndex: i + 1, totalFiles, currentFilename})
ProgressAt(files, j) ==
    [currentIndex |-> j, totalFiles |-> Len(files),
     currentFilename |-> files[j].filename]

batchFrame == <<mediaType, imagePath, imageBase64, imageInfo, selectedRegion,
                processedImage, processedPath, imageRuns, options>>

\* App.tsx handleProcessBatch, lines 169-203: the for loop from position
\* `from` up to its next await (removeWatermark) or to the end of the run.
\* old is the suspended run being resumed, r the same run with its history
\* so far, files0/proc0/err0/stage0 the state the resumed step has produced.
AppLoop(old, r, from, files0, proc0, err0, stage0) ==
    LET j == NextEligible(r.files, from) IN
    IF j <= Len(r.files)
      THEN /\ batchProgress' = <<ProgressAt(r.files, j)>>
           /\ batchFiles' = HandleBatchFileUpdate(files0, r.files[j].id,
                                                  [status |-> "processing"])
           /\ isProcessing' = TRUE
           /\ error' = NULL
           /\ ncalls' = ncalls + 1
           /\ stage' = stage0
           /\ LET a == CallArgs(r, selectedRegion, options) IN
                 /\ batchRuns' = (batchRuns \ {old}) \cup
                                     {Awaiting(r, j, ncalls + 1, a)}
                 /\ dispatched' = <<RemoveWatermarkDispatch(ncalls + 1,
                                       r.files[j].path, a.region, a.options)>>
           /\ NoRunEnds
           /\ NoCleanup
      ELSE /\ batchProgress' = <<>>
           /\ stage' = "batch-results"
           /\ batchFiles' = files0
           /\ isProcessing' = proc0
           /\ error' = err0
           /\ batchRuns' = batchRuns \ {old}
           /\ finished' = <<Ended(r)>>
           /\ lastVideo' = <<>>
           /\ lastImage' = <<>>
           /\ NoDispatch
           /\ NoCleanup
           /\ UNCHANGED ncalls

\* App.tsx handleProcessBatch, started by the Process All button
HandleProcessBatch ==
    /\ caller = "App"
    /\ ~isSettingsOpen
    /\ stage = "batch-select" /\ imageBase64 # NULL /\ imageInfo # NULL
    /\ selectedRegion # NULL /\ ~isProcessing /\ Len(batchFiles) # 0
    /\ ncalls + EligibleCount(batchFiles) <= MaxCalls
    /\ AppLoop(NoRun, NewRun("App", batchFiles, error, selectedRegion, options),
               1, batchFiles, isProcessing, error, "batch-processing")
    /\ UNCHANGED batchFrame
    /\ UNCHANGED videoVars
    /\ UNCHANGED envVars
    /\ UNCHANGED settingsVars
    /\ UNCHANGED componentVars
    /\ UNCHANGED sizeVars
    /\ NoSaving
    /\ UNCHANGED cleanedCalls

\* the removeWatermark call awaited by handleProcessBatch settles
\* (useWatermarkRemoval.ts lines 109-127) and the loop goes on
\* (App.tsx lines 183-203)
BatchItemDone(r, kind) ==
    /\ r \in batchRuns
    /\ r.runner = "App"
    /\ LET outcome == CallOutcome(kind, r.call)
           upd == AppResultUpdate(outcome, TempPath(r.call), r.capErr)
       IN  AppLoop(r, Settled(r, outcome, upd), ResumeFrom(r, outcome),
                   HandleBatchFileUpdate(batchFiles, r.files[r.i].id, upd),
                   FALSE,
                   IF kind = "reject" THEN outcome.msg ELSE error,
                   stage)
    /\ UNCHANGED batchFrame
    /\ UNCHANGED videoVars
    /\ UNCHANGED envVars
    /\ UNCHANGED settingsVars
    /\ UNCHANGED componentVars
    /\ UNCHANGED sizeVars
    /\ NoSaving
    /\ UNCHANGED cleanedCalls

\* useWatermarkRemoval.ts processBatch, lines 302-346: the for loop from
\* position `from` up to its next await (invoke) or to the end of the run
HookLoop(old, r, from, files0) ==
    LET j == NextEligible(r.files, from) IN
    IF j <= Len(r.files)
      THEN /\ batchFiles' = HandleBatchFileUpdate(files0, r.files[j].id,
                                                  [status |-> "processing"])
           /\ isProcessing' = TRUE
           /\ ncalls' = ncalls + 1
           /\ LET a == CallArgs(r, selectedRegion, options) IN
                 /\ batchRuns' = (batchRuns \ {old}) \cup
                                     {Awaiting(r, j, ncalls + 1, a)}
                 /\ dispatched' = <<ProcessBatchDispatch(ncalls + 1,
                                       r.files[j].path, a.region, a.options)>>
           /\ NoRunEnds
           /\ NoCleanup
      ELSE /\ batchFiles' = files0
           /\ isProcessing' = FALSE
           /\ batchRuns' = batchRuns \ {old}
           /\ finished' = <<Ended(r)>>
           /\ lastVideo' = <<>>
           /\ lastImage' = <<>>
           /\ NoDispatch
           /\ NoCleanup
           /\ UNCHANGED ncalls

\* useWatermarkRemoval.ts processBatch, called with the caller's list and
\* a callback that applies each update to that list
ProcessBatch ==
    /\ caller = "processBatch"
    /\ batchRuns = {}
    /\ ncalls + EligibleCount(batchFiles) <= MaxCalls
    /\ error' = NULL
    /\ HookLoop(NoRun, NewRun("processBatch", batchFiles, NULL, selectedRegion,
                               options), 1, batchFiles)
    /\ UNCHANGED <<stage, batchProgress>>
    /\ UNCHANGED batchFrame
    /\ UNCHANGED videoVars
    /\ UNCHANGED envVars
    /\ UNCHANGED settingsVars
    /\ UNCHANGED componentVars
    /\ UNCHANGED sizeVars
    /\ NoSaving
    /\ UNCHANGED cleanedCalls

\* the invoke awaited by processBatch settles (lines 326-343) and the loop
\* goes on
ProcessBatchItemDone(r, kind) ==
    /\ r \in batchRuns
    /\ r.runner = "processBatch"
    /\ LET outcome == CallOutcome(kind, r.call)
           upd == HookResultUpdate(outcome, TempPath(r.call))
       IN  HookLoop(r, Settled(r, outcome, upd), ResumeFrom(r, outcome),
                    HandleBatchFileUpdate(batchFiles, r.files[r.i].id, upd))
    /\ UNCHANGED <<stage, batchProgress, error>>
    /\ UNCHANGED batchFrame
    /\ UNCHANGED videoVars
    /\ UNCHANGED envVars
    /\ UNCHANGED settingsVars
    /\ UNCHANGED componentVars
    /\ UNCHANGED sizeVars
    /\ NoSaving
    /\ UNCHANGED cleanedCalls

\* ------------------------------------------------------ single image ----
\* a single-image call can also return a result without a preview
ImageKinds == CallKinds \cup {"nopreview"}

\* mutant: the rejection of the backend call is passed on to the caller
RemoveWatermarkReturnRethrow(outcome, path) ==
    IF outcome.kind = "reject"
        THEN [settled |-> "rejected", value |-> <<>>, error |-> <<>>,
              isProcessing |-> FALSE]
        ELSE [settled |-> "resolved",
              value |-> IF outcome.kind = "empty" THEN <<>>
                        ELSE <<[output_path |-> path,
                                base64_preview |->
                                   IF outcome.kind = "result"
                                       THEN "preview" ELSE NULL]>>,
              error |-> <<>>, isProcessing |-> FALSE]

\* useWatermarkRemoval.ts removeWatermark lines 109-127: how the call
\* returns for an outcome of its invoke: the way its promise settles, the
\* value it resolves to (<<>> for null), the message it hands to setError
\* (<<>> if none) and the isProcessing its finally block leaves
RemoveWatermarkReturn(outcome, path) ==
    IF outcome.kind = "reject"
        THEN [settled |-> "resolved", value |-> <<>>,
              error |-> <<outcome.msg>>, isProcessing |-> FALSE]
        ELSE [settled |-> "resolved",
              value |-> IF outcome.kind = "empty" THEN <<>>
                        ELSE <<[output_path |-> path,
                                base64_preview |->
                                   IF outcome.kind = "result"
                                       THEN "preview" ELSE NULL]>>,
              error |-> <<>>, isProcessing |-> FALSE]

\* useWatermarkRemoval.ts removeWatermark (lines 91-118) called by a
\* caller of the hook with a path, a region and partial options, up to its
\* await
RemoveWatermark ==
    /\ caller = "removeWatermark"
    /\ imageRuns = {}
    /\ ncalls < MaxCalls
    /\ ncalls' = ncalls + 1
    /\ isProcessing' = TRUE
    /\ error' = NULL
    /\ imageRuns' = {[call |-> ncalls + 1]}
    /\ dispatched' = <<RemoveWatermarkDispatch(ncalls + 1, imagePath,
                                               selectedRegion, options)>>
    /\ UNCHANGED <<stage, mediaType, imagePath, imageBase64, imageInfo,
                   selectedRegion, processedImage, processedPath, batchFiles,
                   batchProgress, batchRuns, options>>
    /\ UNCHANGED videoVars
    /\ UNCHANGED envVars
    /\ UNCHANGED settingsVars
    /\ UNCHANGED componentVars
    /\ UNCHANGED sizeVars
    /\ NoSaving
    /\ UNCHANGED cleanedCalls
    /\ NoRunEnds
    /\ NoCleanup

\* the invoke of that call settles (lines 119-127)
RemoveWatermarkDone(ir, kind) ==
    /\ caller = "removeWatermark"
    /\ ir \in imageRuns
    /\ imageRuns' = imageRuns \ {ir}
    /\ LET ret == RemoveWatermarkReturn(CallOutcome(kind, ir.call),
                                        TempPath(ir.call))
       IN  /\ isProcessing' = ret.isProcessing
           /\ error' = IF ret.error # <<>> THEN ret.error[1] ELSE error
           /\ lastImage' = <<[call |-> ir.call, kind |-> kind, ret |-> ret]>>
    /\ finished' = <<>>
    /\ lastVideo' = <<>>
    /\ NoDispatch
    /\ NoCleanup
    /\ UNCHANGED <<stage, mediaType, imagePath, imageBase64, imageInfo,
                   selectedRegion, processedImage, processedPath, batchFiles,
                   batchProgress, batchRuns, ncalls, options>>
    /\ UNCHANGED videoVars
    /\ UNCHANGED envVars
    /\ UNCHANGED settingsVars
    /\ UNCHANGED componentVars
    /\ UNCHANGED sizeVars
    /\ NoSaving
    /\ UNCHANGED cleanedCalls

\* mutant: the button is disabled only while no region is selected
RemoveWatermarkDisabledNoRegion(region, processing) == region = NULL

\* App.tsx line 445: disabled={!selectedRegion || isProcessing}
RemoveWatermarkDisabled(region, processing) == region = NULL \/ processing

\* App.tsx handleRemoveWatermark, started by the Remove Watermark /
\* Process Video button, up to its await
HandleRemoveWatermark ==
    /\ caller = "App"
    /\ ~isSettingsOpen
    /\ stage = "select" /\ imageBase64 # NULL /\ imageInfo # NULL
    /\ ~RemoveWatermarkDisabled(selectedRegion, isProcessing)
    /\ imagePath # NullPath
    /\ ncalls < MaxCalls
    /\ ncalls' = ncalls + 1
    /\ isProcessing' = TRUE
    /\ error' = NULL
    /\ IF mediaType = "video"
         THEN /\ stage' = "video-processing"
              /\ videoProgress' = <<FreshProgress(ncalls + 1)>>
              /\ progressIntervalRef' = ncalls + 1
              /\ intervals' = ClearInterval(intervals, progressIntervalRef)
                                  \cup {ncalls + 1}
              /\ videoRuns' = videoRuns \cup
                    {[call |-> ncalls + 1, frame |-> 0, cancelled |-> FALSE,
                      cancelRequested |-> FALSE]}
              /\ UNCHANGED imageRuns
         ELSE /\ imageRuns' = imageRuns \cup {[call |-> ncalls + 1]}
              /\ UNCHANGED <<stage, videoProgress, progressIntervalRef, intervals, videoRuns>>
    /\ dispatched' =
          <<IF mediaType = "video"
              THEN ProcessVideoDispatch(ncalls + 1, imagePath, selectedRegion,
                                        options)
              ELSE RemoveWatermarkDispatch(ncalls + 1, imagePath,
                                           selectedRegion, options)>>
    /\ UNCHANGED <<mediaType, imagePath, imageBase64, imageInfo, selectedRegion,
                   processedImage, processedPath, batchFiles, batchProgress,
                   batchRuns, polls, cancels, options>>
    /\ UNCHANGED envVars
    /\ UNCHANGED settingsVars
    /\ UNCHANGED componentVars
    /\ UNCHANGED sizeVars
    /\ NoSaving
    /\ UNCHANGED cleanedCalls
    /\ NoRunEnds
    /\ NoCleanup

\* original_size and processed_size of the result of the n-th call
OriginalSize(n) == 2 * n + 1
ProcessedSize(n) == n

\* mutant: any result is shown, with or without a preview
ShowsPreviewAnyResult(ret) == ret.settled = "resolved" /\ ret.value # <<>>

\* App.tsx line 266: if (result && result.base64_preview)
ShowsPreview(ret) ==
    /\ ret.settled = "resolved"
    /\ ret.value # <<>>
    /\ ret.value[1].base64_preview # NULL

\* the removeWatermark call awaited by handleRemoveWatermark settles
\* (useWatermarkRemoval.ts lines 109-127, App.tsx lines 266-272)
ImageDone(ir, kind) ==
    /\ caller = "App"
    /\ ir \in imageRuns
    /\ imageRuns' = imageRuns \ {ir}
    /\ LET ret == RemoveWatermarkReturn(CallOutcome(kind, ir.call),
                                        TempPath(ir.call))
       IN  /\ isProcessing' = ret.isProcessing
           /\ error' = IF ret.error # <<>> THEN ret.error[1] ELSE error
           /\ IF ShowsPreview(ret)
                THEN /\ processedImage' = ret.value[1].base64_preview
                     /\ processedPath' = ret.value[1].output_path
                     /\ originalSize' = <<OriginalSize(ir.call)>>
                     /\ processedSize' = <<ProcessedSize(ir.call)>>
                     /\ stage' = "preview"
                ELSE UNCHANGED <<processedImage, processedPath, stage,
                                 originalSize, processedSize>>
           /\ lastImage' = <<[call |-> ir.call, kind |-> kind, ret |-> ret]>>
    /\ finished' = <<>>
    /\ lastVideo' = <<>>
    /\ NoDispatch
    /\ NoCleanup
    /\ UNCHANGED <<mediaType, imagePath, imageBase64, imageInfo, selectedRegion,
                   batchFiles, batchProgress, batchRuns, ncalls, options>>
    /\ UNCHANGED videoVars
    /\ UNCHANGED envVars
    /\ UNCHANGED settingsVars
    /\ UNCHANGED componentVars
    /\ NoSaving
    /\ UNCHANGED cleanedCalls

\* ------------------------------------------------------------- video ----
videoFrame == <<mediaType, imagePath, imageBase64, imageInfo, selectedRegion,
                processedImage, batchFiles, batchProgress, batchRuns,
                imageRuns, ncalls, options>>

\* the backend job processes its next frame; the cancellation signal is
\* checked before each frame
VideoFrame(v) ==
    /\ v \in videoRuns
    /\ v.frame < TotalFrames
    /\ ~v.cancelled
    /\ videoRuns' = (videoRuns \ {v}) \cup {[v EXCEPT !.frame = @ + 1]}
    /\ UNCHANGED <<stage, processedPath, isProcessing, error, videoProgress,
                   progressIntervalRef, intervals, polls, cancels>>
    /\ UNCHANGED videoFrame
    /\ UNCHANGED envVars
    /\ UNCHANGED settingsVars
    /\ UNCHANGED componentVars
    /\ UNCHANGED sizeVars
    /\ NoSaving
    /\ UNCHANGED cleanedCalls
    /\ NoEffects

\* ways the process_video call of job v can settle now: with a result once
\* every frame is done, with the cancellation error before the next frame
\* when the signal is set, with a processing error before any frame
VideoOutcomes(v) ==
    IF v.frame = TotalFrames
        THEN {[kind |-> "result", msg |-> NULL]}
        ELSE {[kind |-> "reject", msg |-> ErrorMessage(v.call)]} \cup
             (IF v.cancelled THEN {[kind |-> "reject", msg |-> "cancelled"]} ELSE {})

\* useWatermarkRemoval.ts stopProgressPolling: the ref after the call
StopProgressPolling(ref) == 0

\* mutant: stopProgressPolling forgets the timer without clearing it
StoppedIntervalsKept(live, ref) == live

\* stopProgressPolling lines 242-247: the timers left running
StoppedIntervals(live, ref) == ClearInterval(live, ref)

\* mutant: the finally block leaves the progress record in place
ClearedProgressKeep(vp) == vp

\* what the finally block of processVideo leaves in videoProgress (line 276)
ClearedProgress(vp) == <<>>

\* mutant: the processing flag is cleared after a result only, not in a
\* finally block
ProcessVideoReturnNoFinally(outcome, path) ==
    IF outcome.kind = "reject"
        THEN [settled |-> "resolved", value |-> <<>>,
              error |-> <<outcome.msg>>, isProcessing |-> TRUE]
        ELSE [settled |-> "resolved", value |-> <<[output_path |-> path]>>,
              error |-> <<>>, isProcessing |-> FALSE]

\* useWatermarkRemoval.ts processVideo lines 263-277: how the call returns
\* for an outcome of its invoke (fields as in RemoveWatermarkReturn)
ProcessVideoReturn(outcome, path) ==
    IF outcome.kind = "reject"
        THEN [settled |-> "resolved", value |-> <<>>,
              error |-> <<outcome.msg>>, isProcessing |-> FALSE]
        ELSE [settled |-> "resolved", value |-> <<[output_path |-> path]>>,
              error |-> <<>>, isProcessing |-> FALSE]

\* the process_video call settles: processVideo lines 268-277, then
\* handleRemoveWatermark lines 255-262
VideoDone(v, outcome) ==
    /\ v \in videoRuns
    /\ outcome \in VideoOutcomes(v)
    /\ videoRuns' = videoRuns \ {v}
    /\ progressIntervalRef' = StopProgressPolling(progressIntervalRef)
    /\ intervals' = StoppedIntervals(intervals, progressIntervalRef)
    /\ videoProgress' = ClearedProgress(videoProgress)
    /\ LET ret == ProcessVideoReturn(outcome, TempPath(v.call))
       IN  /\ error' = IF ret.error # <<>> THEN ret.error[1] ELSE error
           /\ isProcessing' = ret.isProcessing
           /\ IF ret.value # <<>>
                THEN /\ processedPath' = ret.value[1].output_path
                     /\ stage' = "preview"
                ELSE /\ stage' = "select"
                     /\ UNCHANGED processedPath
           /\ lastVideo' = <<[call |-> v.call, kind |-> outcome.kind,
                              msg |-> outcome.msg,
                              cancelRequested |-> v.cancelRequested,
                              cancelled |-> v.cancelled, ret |-> ret]>>
    /\ finished' = <<>>
    /\ lastImage' = <<>>
    /\ NoDispatch
    /\ NoCleanup
    /\ UNCHANGED <<polls, cancels>>
    /\ UNCHANGED videoFrame
    /\ UNCHANGED envVars
    /\ UNCHANGED settingsVars
    /\ UNCHANGED componentVars
    /\ UNCHANGED sizeVars
    /\ NoSaving
    /\ UNCHANGED cleanedCalls

\* the 500 ms interval fires: the callback sends get_video_progress
\* (useWatermarkRemoval.ts lines 232-234); the backend answers with the
\* record of a job in progress
PollTick(v) ==
    /\ intervals # {}
    /\ v \in videoRuns
    /\ Cardinality(polls) < MaxPolls
    /\ polls' = polls \cup {BackendProgress(v.call, v.frame)}
    /\ UNCHANGED <<stage, processedPath, isProcessing, error, videoProgress,
                   progressIntervalRef, intervals, videoRuns, cancels>>
    /\ UNCHANGED videoFrame
    /\ UNCHANGED envVars
    /\ UNCHANGED settingsVars
    /\ UNCHANGED componentVars
    /\ UNCHANGED sizeVars
    /\ NoSaving
    /\ UNCHANGED cleanedCalls
    /\ NoEffects

\* the answer to get_video_progress arrives (line 235)
PollDone(p) ==
    /\ p \in polls
    /\ polls' = polls \ {p}
    /\ videoProgress' = <<p>>
    /\ UNCHANGED <<stage, processedPath, isProcessing, error,
                   progressIntervalRef, intervals, videoRuns, cancels>>
    /\ UNCHANGED videoFrame
    /\ UNCHANGED envVars
    /\ UNCHANGED settingsVars
    /\ UNCHANGED componentVars
    /\ UNCHANGED sizeVars
    /\ NoSaving
    /\ UNCHANGED cleanedCalls
    /\ NoEffects

\* get_video_progress rejects (lines 236-238): logged, nothing else
PollFailed(p) ==
    /\ p \in polls
    /\ polls' = polls \ {p}
    /\ UNCHANGED <<stage, processedPath, isProcessing, error, videoProgress,
                   progressIntervalRef, intervals, videoRuns, cancels>>
    /\ UNCHANGED videoFrame
    /\ UNCHANGED envVars
    /\ UNCHANGED settingsVars
    /\ UNCHANGED componentVars
    /\ UNCHANGED sizeVars
    /\ NoSaving
    /\ UNCHANGED cleanedCalls
    /\ NoEffects

\* App.tsx handleCancelVideoProcessing up to its await: the Cancel button of
\* the VideoProgress panel sends cancel_video_processing
HandleCancelVideoProcessing ==
    /\ caller = "App"
    /\ ~isSettingsOpen
    /\ stage = "video-processing" /\ videoProgress # <<>>
    /\ cancels.sent + cancels.acked < MaxCancels
    /\ cancels' = [cancels EXCEPT !.sent = @ + 1]
    /\ videoRuns' = {[v EXCEPT !.cancelRequested = TRUE] : v \in videoRuns}
    /\ UNCHANGED <<stage, processedPath, isProcessing, error, videoProgress,
                   progressIntervalRef, intervals, polls>>
    /\ UNCHANGED videoFrame
    /\ UNCHANGED envVars
    /\ UNCHANGED settingsVars
    /\ UNCHANGED componentVars
    /\ UNCHANGED sizeVars
    /\ NoSaving
    /\ UNCHANGED cleanedCalls
    /\ NoEffects

\* the backend handles cancel_video_processing: the cancellation signal of
\* the running job is set
CancelHandled ==
    /\ cancels.sent > 0
    /\ cancels' = [sent |-> cancels.sent - 1, acked |-> cancels.acked + 1]
    /\ videoRuns' = {[v EXCEPT !.cancelled = TRUE] : v \in videoRuns}
    /\ UNCHANGED <<stage, processedPath, isProcessing, error, videoProgress,
                   progressIntervalRef, intervals, polls>>
    /\ UNCHANGED videoFrame
    /\ UNCHANGED envVars
    /\ UNCHANGED settingsVars
    /\ UNCHANGED componentVars
    /\ UNCHANGED sizeVars
    /\ NoSaving
    /\ UNCHANGED cleanedCalls
    /\ NoEffects

\* cancel_video_processing resolved: cancelVideoProcessing line 283, then
\* handleCancelVideoProcessing line 330
CancelDone ==
    /\ cancels.acked > 0
    /\ cancels' = [cancels EXCEPT !.acked = @ - 1]
    /\ progressIntervalRef' = StopProgressPolling(progressIntervalRef)
    /\ intervals' = StoppedIntervals(intervals, progressIntervalRef)
    /\ stage' = "select"
    /\ UNCHANGED <<processedPath, isProcessing, error, videoProgress, videoRuns,
                   polls>>
    /\ UNCHANGED videoFrame
    /\ UNCHANGED envVars
    /\ UNCHANGED settingsVars
    /\ UNCHANGED componentVars
    /\ UNCHANGED sizeVars
    /\ NoSaving
    /\ UNCHANGED cleanedCalls
    /\ NoEffects

\* cancel_video_processing rejected: cancelVideoProcessing lines 284-286
\* only log, then handleCancelVideoProcessing line 330
CancelFailed ==
    /\ cancels.sent > 0
    /\ cancels' = [cancels EXCEPT !.sent = @ - 1]
    /\ stage' = "select"
    /\ UNCHANGED <<processedPath, isProcessing, error, videoProgress,
                   progressIntervalRef, intervals, videoRuns, polls>>
    /\ UNCHANGED videoFrame
    /\ UNCHANGED envVars
    /\ UNCHANGED settingsVars
    /\ UNCHANGED componentVars
    /\ UNCHANGED sizeVars
    /\ NoSaving
    /\ UNCHANGED cleanedCalls
    /\ NoEffects

\* ---------------------------------------------------------- Save All ----
\* file.filename.replace(/\.[^/.]+$/, ''): the names of the selected files
\* end in ".png", the fallback names "file-<index>" have no extension
NameWithoutExt(filename) ==
    IF \E k \in 0..(MaxFiles + 1) : filename = "img" \o ToString(k) \o ".png"
        THEN LET k == CHOOSE j \in 0..(MaxFiles + 1) :
                          filename = "img" \o ToString(j) \o ".png"
             IN  "img" \o ToString(k)
        ELSE filename

\* `${destination}/${nameWithoutExt}_watermark.${extension}`: a scratch
\* path stands for a PNG file, its extension is "png"
OutputPath(destination, file) ==
    <<destination, NameWithoutExt(file.filename) \o "_watermark." \o "png">>

\* invoke('save_processed_image', { sourcePath, destinationPath })
CopyRequest(run, file, destination) ==
    [run |-> run, id |-> file.id, sourcePath |-> file.processedPath,
     destinationPath |-> OutputPath(destination, file)]

\* mutant: every item of the list is saved
CompletedFilesAll(files) == files

\* batchFiles.filter(f => f.status === 'completed' && f.processedPath)
CompletedFiles(files) ==
    SelectSeq(files, LAMBDA f : f.status = "completed" /\ f.processedPath # NULL)

saveFrame == <<caller, now, stage, mediaType, imagePath, imageBase64, imageInfo,
               selectedRegion, processedImage, processedPath, batchFiles,
               batchProgress, isProcessing, batchRuns, imageRuns, ncalls,
               options, cleanedCalls>>

\* App.tsx handleSaveBatch lines 207-212: Save All is pressed (enabled while
\* an item is completed, line 572) and the folder dialog opens
HandleSaveBatch ==
    /\ caller = "App"
    /\ stage = "batch-results"
    /\ \E k \in DOMAIN batchFiles : batchFiles[k].status = "completed"
    /\ Cardinality(saveRuns) < MaxSaves
    /\ saveRuns' = saveRuns \cup
          {[slot |-> CHOOSE i \in 1..MaxSaves : \A s \in saveRuns : s.slot # i,
            files |-> batchFiles, k |-> 0,
            destination |-> NULL, savedCount |-> 0, log |-> <<>>]}
    /\ copyRequested' = <<>>
    /\ saveAlert' = <<>>
    /\ UNCHANGED saveFrame
    /\ UNCHANGED error
    /\ UNCHANGED videoVars
    /\ UNCHANGED settingsVars
    /\ UNCHANGED componentVars
    /\ UNCHANGED sizeVars
    /\ NoEffects

\* the alert that ends handleSaveBatch (lines 233-238)
SaveAlert(s, savedCount, log) ==
    [slot |-> s.slot, files |-> s.files, savedCount |-> savedCount,
     total |-> Len(CompletedFiles(s.files)),
     allSaved |-> savedCount = Len(CompletedFiles(s.files)),
     log |-> log]

\* handleSaveBatch lines 214-229: the dialog returns; without a folder the
\* handler returns, with one the first completed file is handed off
SaveDialogDone(s, destination) ==
    /\ caller = "App"
    /\ s \in saveRuns
    /\ s.k = 0
    /\ LET completedFiles == CompletedFiles(s.files)
       IN  IF destination = NULL
             THEN /\ saveRuns' = saveRuns \ {s}
                  /\ copyRequested' = <<>>
                  /\ saveAlert' = <<>>
             ELSE IF Len(completedFiles) = 0
               THEN /\ saveRuns' = saveRuns \ {s}
                    /\ copyRequested' = <<>>
                    /\ saveAlert' = <<SaveAlert(s, 0, <<>>)>>
               ELSE /\ saveRuns' = (saveRuns \ {s}) \cup
                          {[s EXCEPT !.k = 1, !.destination = destination]}
                    /\ copyRequested' =
                          <<CopyRequest(s.slot, completedFiles[1], destination)>>
                    /\ saveAlert' = <<>>
    /\ UNCHANGED saveFrame
    /\ UNCHANGED error
    /\ UNCHANGED videoVars
    /\ UNCHANGED settingsVars
    /\ UNCHANGED componentVars
    /\ UNCHANGED sizeVars
    /\ NoEffects

\* saveProcessedImage (useWatermarkRemoval.ts lines 173-185) settles and the
\* loop of handleSaveBatch goes on (lines 219-231) or ends (lines 233-238)
SaveCopyDone(s, success) ==
    /\ caller = "App"
    /\ s \in saveRuns
    /\ s.k >= 1
    /\ LET completedFiles == CompletedFiles(s.files)
           savedCount == IF success THEN s.savedCount + 1 ELSE s.savedCount
           log == Append(s.log,
                         [request |-> CopyRequest(s.slot, completedFiles[s.k],
                                                  s.destination),
                          success |-> success])
       IN  /\ error' = IF success THEN error ELSE "copy failed"
           /\ IF s.k < Len(completedFiles)
                THEN /\ saveRuns' = (saveRuns \ {s}) \cup
                           {[s EXCEPT !.k = s.k + 1,
                                      !.savedCount = savedCount,
                                      !.log = log]}
                     /\ copyRequested' =
                           <<CopyRequest(s.slot, completedFiles[s.k + 1],
                                         s.destination)>>
                     /\ saveAlert' = <<>>
                ELSE /\ saveRuns' = saveRuns \ {s}
                     /\ copyRequested' = <<>>
                     /\ saveAlert' = <<SaveAlert(s, savedCount, log)>>
    /\ UNCHANGED saveFrame
    /\ UNCHANGED videoVars
    /\ UNCHANGED settingsVars
    /\ UNCHANGED componentVars
    /\ UNCHANGED sizeVars
    /\ NoEffects

\* ------------------------------------------------------ specification ----
Next ==
    \/ \E n \in 1..MaxFiles, o \in {"ok", "noInfo", "noData"} :
          HandleBatchSelect([k \in 1..n |-> SelectedPath(k)], o)
    \/ \E t \in {"image", "video"}, o \in {"ok", "noInfo", "noData"} : HandleMediaSelect(t, o)
    \/ \E r \in Regions : HandleRegionSelect(r)
    \/ \E k \in 1..MaxFiles : HandleRemoveBatchFile(k)
    \/ HandleReset
    \/ HandleBack
    \/ Unmount
    \/ HandleProcessBatch
    \/ \E r \in batchRuns, k \in CallKinds : BatchItemDone(r, k)
    \/ ProcessBatch
    \/ \E r \in batchRuns, k \in CallKinds : ProcessBatchItemDone(r, k)
    \/ HandleRemoveWatermark
    \/ \E ir \in imageRuns, k \in ImageKinds : ImageDone(ir, k)
    \/ \E v \in videoRuns : VideoFrame(v)
    \/ \E v \in videoRuns : \E o \in VideoOutcomes(v) : VideoDone(v, o)
    \/ \E v \in videoRuns : PollTick(v)
    \/ \E p \in polls : PollDone(p)
    \/ \E p \in polls : PollFailed(p)
    \/ HandleCancelVideoProcessing
    \/ CancelHandled
    \/ CancelDone
    \/ CancelFailed

Spec == Init /\ [][Next]_vars

\* batches and Save All: the App with image batches only; the files of a
\* selection can come from two folders and bear the same name, and the user
\* can draw a second region
NextSave ==
    \/ \E n \in 1..MaxFiles, o \in {"ok", "noInfo", "noData"} :
          HandleBatchSelect([k \in 1..n |-> SelectedPath(k)], o)
    \/ \E o \in {"ok", "noInfo", "noData"} :
          HandleBatchSelect(<<SelectedPath(1), <<"in2", "img1.png">>>>, o)
    \/ \E r \in Regions \cup {"r2"} : HandleRegionSelect(r)
    \/ \E k \in 1..MaxFiles : HandleRemoveBatchFile(k)
    \/ HandleReset
    \/ HandleBack
    \/ HandleProcessBatch
    \/ \E r \in batchRuns, k \in CallKinds : BatchItemDone(r, k)
    \/ HandleSaveBatch
    \/ \E s \in saveRuns, d \in {"out", NULL} : SaveDialogDone(s, d)
    \/ \E s \in saveRuns, ok \in BOOLEAN : SaveCopyDone(s, ok)

SpecSave == Init /\ [][NextSave]_vars

\* options a caller can hand to removeWatermark (Partial<RemovalOptions>):
\* with a method, or without one
PartialOptions ==
    {[processing_method |-> m] : m \in Methods} \cup {[lossless |-> TRUE]}

\* the App with a credential store that may hold a key: the mount effect
\* has sent its checkApiKey (useWatermarkRemoval.ts lines 78-80); a caller
\* of processBatch or of removeWatermark hands over options of its choice
InitOptions ==
    /\ InitCommon
    /\ credential \in Keys
    /\ hasApiKey = FALSE
    /\ \/ /\ caller = "App"
          /\ selectedRegion = NULL
          /\ batchFiles = <<>>
          /\ options = AppDefaultOptions
          /\ keyChecks = {credential}
       \/ /\ caller = "processBatch"
          /\ selectedRegion \in Regions
          /\ keyChecks = {}
          /\ \E m \in Methods :
                options = [AppDefaultOptions EXCEPT !.processing_method = m]
          /\ \E n \in 1..MaxFiles :
               \E st \in [1..n -> {"pending", "completed", "failed"}] :
                  batchFiles = [k \in 1..n |-> PriorFile(k, st[k])]
       \/ /\ caller = "removeWatermark"
          /\ selectedRegion \in Regions
          /\ keyChecks = {}
          /\ options \in PartialOptions
          /\ batchFiles = <<>>

\* the steps that read or write the options, the key or a dispatch: the
\* polling and cancel requests of a video run, the removal of a queued file
\* and the failed loads of a selection touch none of them
NextOptions ==
    \/ \E n \in 1..MaxFiles :
          HandleBatchSelect([k \in 1..n |-> SelectedPath(k)], "ok")
    \/ \E t \in {"image", "video"} : HandleMediaSelect(t, "ok")
    \/ \E r \in Regions : HandleRegionSelect(r)
    \/ HandleReset
    \/ HandleBack
    \/ Unmount
    \/ HandleProcessBatch
    \/ \E r \in batchRuns, k \in CallKinds : BatchItemDone(r, k)
    \/ ProcessBatch
    \/ \E r \in batchRuns, k \in CallKinds : ProcessBatchItemDone(r, k)
    \/ HandleRemoveWatermark
    \/ \E ir \in imageRuns, k \in ImageKinds : ImageDone(ir, k)
    \/ RemoveWatermark
    \/ \E ir \in imageRuns, k \in CallKinds : RemoveWatermarkDone(ir, k)
    \/ \E v \in videoRuns : VideoFrame(v)
    \/ \E v \in videoRuns : \E o \in VideoOutcomes(v) : VideoDone(v, o)
    \/ \E m \in Methods : HandleOptionsChange(m)
    \/ HandleSettingsOpen
    \/ \E key \in Keys : SettingsHandleSave(key)
    \/ HandleSettingsClose
    \/ \E key \in keyChecks, ok \in BOOLEAN : KeyCheckDone(key, ok)

SpecOptions == InitOptions /\ [][NextOptions]_vars

\* ----------------------------------------------------- components ----
\* the App around a component under study: freshly mounted and left alone
appAll == <<caller, stage, mediaType, imagePath, imageBase64, imageInfo,
            selectedRegion, processedImage, processedPath, batchFiles,
            batchProgress, isProcessing, error, videoProgress,
            progressIntervalRef, intervals, batchRuns, imageRuns, videoRuns, polls,
            cancels, now, ncalls, options, finished, lastVideo, lastImage,
            dispatched, cleanupRequested, originalSize, processedSize,
            saveRuns, copyRequested, saveAlert, dropZone, cleanedCalls>>

InitIdle ==
    /\ InitApp
    /\ caller = "App"
    /\ selectedRegion = NULL
    /\ batchFiles = <<>>
    /\ options = AppDefaultOptions
    /\ credential = ""
    /\ hasApiKey = FALSE
    /\ keyChecks = {}

\* -------------------------------------------------- RegionSelector ----
\* JavaScript numbers as far as the selector can produce them
NaN == <<"nan">>
Infinity(sign) == <<"inf", sign>>
Num(n) == <<"num", n>>
IsNum(a) == a[1] = "num"

\* the media shown (imageInfo.width, imageInfo.height), the client sizes
\* of the container and the offsets of the pointer from the corner of the
\* <img> (e.clientX - imgRect.left, e.clientY - imgRect.top)
Media == {[width |-> 30, height |-> 15]}
Containers == {<<100, 100>>, <<60, 50>>, <<40, 40>>, <<30, 45>>}
Offsets == {-1, 0, 3, 4, 9, 40}

\* fractions num/den with den > 0
RatMin(a, b) == IF a[1] * b[2] <= b[1] * a[2] THEN a ELSE b

\* updateScale, lines 32-40: Math.min(scaleX, scaleY, 1) with the 40 px of
\* padding taken off the container
UpdateScale(c, info) ==
    RatMin(RatMin(<<c[1] - 40, info.width>>, <<c[2] - 40, info.height>>),
           <<1, 1>>)

\* Math.round(d / scale): the quotient rounded to the nearest integer,
\* halves upwards; a division by zero gives an infinity, 0 / 0 gives NaN
RoundedQuotient(d, sc) ==
    IF sc[1] = 0
        THEN IF d = 0 THEN NaN ELSE Infinity(IF d > 0 THEN 1 ELSE -1)
        ELSE LET p == IF sc[1] > 0 THEN d * sc[2] ELSE (-d) * sc[2]
                 q == IF sc[1] > 0 THEN sc[1] ELSE -sc[1]
             IN  Num((2 * p + q) \div (2 * q))

\* Math.max(0, Math.min(hi, a)): NaN stays NaN
Clamp(a, hi) ==
    IF a = NaN THEN NaN
    ELSE IF a[1] = "inf" THEN Num(IF a[2] > 0 THEN hi ELSE 0)
    ELSE Num(IF a[2] < 0 THEN 0 ELSE IF a[2] > hi THEN hi ELSE a[2])

\* mutant: the coordinates are rounded but not clamped to the image
GetImageCoordinatesUnclamped(off, sc, info) ==
    [x |-> RoundedQuotient(off[1], sc), y |-> RoundedQuotient(off[2], sc)]

\* getImageCoordinates, lines 47-63
GetImageCoordinates(off, sc, info) ==
    [x |-> Clamp(RoundedQuotient(off[1], sc), info.width),
     y |-> Clamp(RoundedQuotient(off[2], sc), info.height)]

\* Math.min(a, b) and Math.abs(a - b)
NumMin(a, b) ==
    IF IsNum(a) /\ IsNum(b) THEN Num(IF a[2] <= b[2] THEN a[2] ELSE b[2])
    ELSE NaN
NumAbsDiff(a, b) ==
    IF IsNum(a) /\ IsNum(b)
        THEN Num(IF a[2] >= b[2] THEN a[2] - b[2] ELSE b[2] - a[2])
        ELSE NaN
\* a > n; false for NaN
NumGreater(a, n) == IsNum(a) /\ a[2] > n

\* handleMouseUp lines 89-97: the call of onRegionSelect a drag from
\* start to current makes (<<>> if none)
SelectedRegionOf(start, current) ==
    LET x == NumMin(start.x, current.x)
        y == NumMin(start.y, current.y)
        width == NumAbsDiff(current.x, start.x)
        height == NumAbsDiff(current.y, start.y)
    IN  IF NumGreater(width, 5) /\ NumGreater(height, 5)
            THEN <<[x |-> x[2], y |-> y[2],
                    width |-> width[2], height |-> height[2]]>>
            ELSE <<>>

regionFrame ==
    <<appAll, settingsVars, previewPanel, videoProgressPanel>>

\* the selector mounted for a medium: useState initial values and the
\* first updateScale; lastUp is history: the drag the last step released
\* and the region it reported
InitRegionSelector ==
    /\ InitIdle
    /\ previewPanel = <<>>
    /\ videoProgressPanel = <<>>
    /\ \E info \in Media, c \in Containers, d \in BOOLEAN :
          regionSelector =
              [imageInfo |-> info, disabled |-> d, isSelecting |-> FALSE,
               startPoint |-> <<>>, currentPoint |-> <<>>,
               scale |-> UpdateScale(c, info), lastUp |-> <<>>]

\* the resize listener runs updateScale
Resize(c) ==
    /\ regionSelector' =
          [regionSelector EXCEPT
              !.scale = UpdateScale(c, regionSelector.imageInfo),
              !.lastUp = <<>>]
    /\ UNCHANGED regionFrame

\* handleMouseDown, lines 65-73
HandleMouseDown(off) ==
    /\ regionSelector' =
          IF regionSelector.disabled
            THEN [regionSelector EXCEPT !.lastUp = <<>>]
            ELSE LET point == GetImageCoordinates(off, regionSelector.scale,
                                                  regionSelector.imageInfo)
                 IN  [regionSelector EXCEPT !.isSelecting = TRUE,
                                            !.startPoint = <<point>>,
                                            !.currentPoint = <<point>>,
                                            !.lastUp = <<>>]
    /\ UNCHANGED regionFrame

\* handleMouseMove, lines 75-81
HandleMouseMove(off) ==
    /\ regionSelector' =
          IF ~regionSelector.isSelecting \/ regionSelector.disabled
            THEN [regionSelector EXCEPT !.lastUp = <<>>]
            ELSE LET point == GetImageCoordinates(off, regionSelector.scale,
                                                  regionSelector.imageInfo)
                 IN  [regionSelector EXCEPT !.currentPoint = <<point>>,
                                            !.lastUp = <<>>]
    /\ UNCHANGED regionFrame

\* handleMouseUp, lines 83-102 (also bound to onMouseLeave)
HandleMouseUp ==
    /\ regionSelector' =
          IF \/ ~regionSelector.isSelecting
             \/ regionSelector.startPoint = <<>>
             \/ regionSelector.currentPoint = <<>>
             \/ regionSelector.disabled
            THEN [regionSelector EXCEPT !.isSelecting = FALSE,
                                        !.lastUp = <<>>]
            ELSE [regionSelector EXCEPT
                    !.isSelecting = FALSE,
                    !.startPoint = <<>>,
                    !.currentPoint = <<>>,
                    !.lastUp =
                       <<[start |-> regionSelector.startPoint[1],
                          current |-> regionSelector.currentPoint[1],
                          region |->
                             SelectedRegionOf(regionSelector.startPoint[1],
                                              regionSelector.currentPoint[1])]>>]
    /\ UNCHANGED regionFrame

NextRegionSelector ==
    \/ \E c \in Containers : Resize(c)
    \/ \E off \in Offsets \X Offsets : HandleMouseDown(off)
    \/ \E off \in Offsets \X Offsets : HandleMouseMove(off)
    \/ HandleMouseUp

SpecRegionSelector == InitRegionSelector /\ [][NextRegionSelector]_vars

\* ---------------------------------------------------- PreviewPanel ----
\* file sizes in bytes, as the backend reports them in a ProcessResult
Sizes == 1..MaxSize

\* Math.round(100 * num / den) for den > 0: halves are rounded upwards
RoundPercent(num, den) == (200 * num + den) \div (2 * den)

\* mutant: the percentage is cut off instead of rounded
SizeComparisonTruncated(original, processed) ==
    IF original > processed
        THEN [sign |-> "-",
              percent |-> (100 * (original - processed))
                              \div original]
    ELSE IF original < processed
        THEN [sign |-> "+",
              percent |-> (100 * (processed - original))
                              \div original]
    ELSE [sign |-> "", percent |-> 0]

\* PreviewPanel, part_001 lines 279-289: the size-saved label;
\* (1 - p/o) * 100 = 100 * (o - p) / o and (p/o - 1) * 100 = 100 * (p - o) / o
SizeComparison(original, processed) ==
    IF original > processed
        THEN [sign |-> "-",
              percent |-> RoundPercent(original - processed,
                                       original)]
    ELSE IF original < processed
        THEN [sign |-> "+",
              percent |-> RoundPercent(processed - original,
                                       original)]
    ELSE [sign |-> "", percent |-> 0]

previewFrame ==
    <<appAll, settingsVars, regionSelector, videoProgressPanel>>

\* the panel before a result: both sizes undefined, nothing rendered
NoSizes == [sizes |-> <<>>, rendered |-> <<>>]

InitPreviewPanel ==
    /\ InitIdle
    /\ regionSelector = <<>>
    /\ videoProgressPanel = <<>>
    /\ previewPanel = NoSizes

\* the panel rendered with the sizes of a result (App.tsx lines 269-270
\* and 589-590, part_001 lines 274-291)
PreviewRender(original, processed) ==
    /\ previewPanel' =
          [sizes |-> <<original, processed>>,
           rendered |-> <<SizeComparison(original, processed)>>]
    /\ UNCHANGED previewFrame

\* handleReset sets both sizes back to null (App.tsx lines 319-320): the
\* comparison is not rendered
PreviewClear ==
    /\ previewPanel # NoSizes
    /\ previewPanel' = NoSizes
    /\ UNCHANGED previewFrame

NextPreviewPanel ==
    \/ \E o \in Sizes, p \in Sizes : PreviewRender(o, p)
    \/ PreviewClear

SpecPreviewPanel == InitPreviewPanel /\ [][NextPreviewPanel]_vars

\* --------------------------------------------------- VideoProgress ----
\* percentages a progress record can carry (current / total * 100; the
\* component itself caps the bar at 100)
Percents == {0, 1, 5, 6, 25, 50, 100, 120}

\* mutant: the difference is not cut off at 0
EstimatedRemainingSigned(elapsedTime, percent) ==
    IF percent > 0
        THEN <<elapsedTime * 100 - elapsedTime * percent, percent>>
        ELSE <<0 - elapsedTime, 1>>

\* lines 33-34: estimatedTotal = percent > 0 ? elapsed / percent * 100 : 0
\* and estimatedRemaining = Math.max(0, estimatedTotal - elapsed), as the
\* fraction <<numerator, denominator>> of seconds
EstimatedRemaining(elapsedTime, percent) ==
    LET diff == IF percent > 0
                    THEN <<elapsedTime * 100 - elapsedTime * percent, percent>>
                    ELSE <<0 - elapsedTime, 1>>
    IN  IF diff[1] < 0 THEN <<0, 1>> ELSE diff

\* formatTime, lines 10-17, of the seconds t[1] / t[2] >= 0: <<s>> for
\* "{s}s", <<m, s>> for "{m}m {s}s"
FormatTime(t) ==
    IF t[1] < 60 * t[2]
        THEN <<(2 * t[1] + t[2]) \div (2 * t[2])>>
        ELSE LET minutes == t[1] \div (60 * t[2])
                 rest == t[1] - 60 * t[2] * minutes
             IN  <<minutes, (2 * rest + t[2]) \div (2 * t[2])>>

\* lines 65-70: the Remaining value, <<>> for 'Calculating...'
RemainingLabel(elapsedTime, percent) ==
    IF percent > 5
        THEN <<FormatTime(EstimatedRemaining(elapsedTime, percent))>>
        ELSE <<>>

\* one render of the component
VideoProgressRender(elapsedTime, percent) ==
    [elapsedTime |-> elapsedTime,
     percent |-> percent,
     estimatedRemaining |-> EstimatedRemaining(elapsedTime, percent),
     remaining |-> RemainingLabel(elapsedTime, percent)]

progressFrame ==
    <<appAll, settingsVars, regionSelector, previewPanel>>

\* mounted with the fresh progress record: elapsedTime is useState(0)
InitVideoProgress ==
    /\ InitIdle
    /\ regionSelector = <<>>
    /\ previewPanel = <<>>
    /\ videoProgressPanel = VideoProgressRender(0, 0)

\* the interval of lines 22-28 sets elapsedTime a second later
ElapsedTick ==
    /\ videoProgressPanel.elapsedTime < MaxElapsed
    /\ videoProgressPanel' =
          VideoProgressRender(videoProgressPanel.elapsedTime + 1,
                              videoProgressPanel.percent)
    /\ UNCHANGED progressFrame

\* the parent passes a new progress record
ProgressChange(percent) ==
    /\ percent # videoProgressPanel.percent
    /\ videoProgressPanel' =
          VideoProgressRender(videoProgressPanel.elapsedTime, percent)
    /\ UNCHANGED progressFrame

NextVideoProgress ==
    \/ ElapsedTick
    \/ \E percent \in Percents : ProgressChange(percent)

SpecVideoProgress == InitVideoProgress /\ [][NextVideoProgress]_vars

\* ------------------------------------------------------ ImageDropZone ----
\* ImageDropZone.tsx lines 17-18
IMAGE_EXTENSIONS == {"png", "jpg", "jpeg", "webp", "gif"}
VIDEO_EXTENSIONS == {"mp4", "avi", "mov", "mkv", "webm"}

\* String.prototype.toLowerCase on the strings of the model
ToLowerCase(str) ==
    CASE str = "Jpg" -> "jpg"
      [] str = "MP4" -> "mp4"
      [] OTHER -> str

\* path.split('.').pop()?.toLowerCase() || '': a path is the sequence of
\* its '.'-separated parts
PathExtension(path) ==
    IF Len(path) = 0 THEN "" ELSE ToLowerCase(path[Len(path)])

\* getMediaType (lines 21-23)
GetMediaType(extension) ==
    IF ToLowerCase(extension) \in VIDEO_EXTENSIONS THEN "video" ELSE "image"

\* mutant: every media file counts as an image
IsImagePathOrVideo(path) ==
    PathExtension(path) \in IMAGE_EXTENSIONS \cup VIDEO_EXTENSIONS

\* the filter of handleBatchSelect (lines 41-44)
IsImagePath(path) == PathExtension(path) \in IMAGE_EXTENSIONS

\* handleBatchSelect (lines 38-49): what is passed to onBatchSelect, if it
\* is called
DropZoneBatchSelect(paths) ==
    LET imagePaths == SelectSeq(paths, IsImagePath)
    IN  IF Len(imagePaths) > 0
          THEN <<[callback |-> "onBatchSelect", paths |-> imagePaths]>>
          ELSE <<>>

\* files the dialog can return: images and videos, with the extension in
\* lower and upper case, and a name without a dot
DialogFiles ==
    {<<"in/a", "png">>, <<"in/b", "Jpg">>, <<"in/c", "mp4">>, <<"in/e">>,
     <<"in/g", "MP4">>}

RECURSIVE Selections(_)
Selections(n) ==
    IF n = 0 THEN {<<>>}
    ELSE Selections(n - 1) \cup
         {Append(sel, f) : sel \in {x \in Selections(n - 1) : Len(x) = n - 1},
                           f \in DialogFiles}

\* handleOpenDialog (lines 89-126) with the answer of the dialog: nothing
\* happens without a selection
HandleOpenDialog(selected) ==
    /\ dropZone' =
          <<[selected |-> selected,
             called |->
                IF Len(selected) = 0 THEN <<>>
                ELSE IF Len(selected) > 1 THEN DropZoneBatchSelect(selected)
                ELSE <<[callback |-> "onMediaSelect", path |-> selected[1],
                        type |-> GetMediaType(PathExtension(selected[1]))]>>]>>
    /\ UNCHANGED <<regionSelector, previewPanel, videoProgressPanel>>
    /\ UNCHANGED <<caller, stage, mediaType, imagePath, imageBase64,
                   imageInfo, selectedRegion, processedImage, processedPath,
                   batchFiles, batchProgress, isProcessing, error,
                   videoProgress, progressIntervalRef, intervals, batchRuns, imageRuns,
                   videoRuns, polls, cancels, now, ncalls, options, finished,
                   lastVideo, lastImage, dispatched, cleanupRequested,
                   originalSize, processedSize, saveRuns, copyRequested,
                   saveAlert, cleanedCalls>>
    /\ UNCHANGED settingsVars

NextDropZone == \E selected \in Selections(MaxSelected) : HandleOpenDialog(selected)

SpecDropZone == Init /\ [][NextDropZone]_vars

\* ---------------------------------------------------- reading a run ----
EndedRuns == {finished[k] : k \in DOMAIN finished}
AllRuns == batchRuns \cup EndedRuns

Terminal == {"completed", "failed"}

\* positions of the log of r at which an event of the given kind for id is
InvokesOf(r, id) == {p \in DOMAIN r.log : r.log[p] = <<"invoke", id>>}
UpdatesOf(r, id) ==
    {p \in DOMAIN r.log : r.log[p][1] = "update" /\ r.log[p][2] = id}
TerminalUpdatesOf(r, id) ==
    {p \in UpdatesOf(r, id) : r.log[p][3] \in Terminal}
EventsOf(r, id) ==
    {p \in DOMAIN r.log : Len(r.log[p]) >= 2 /\ r.log[p][2] = id}

\* the items of the displayed list that carry the given id
ItemsWithId(id) == {m \in DOMAIN batchFiles : batchFiles[m].id = id}

\* the recorded outcomes of the dispatcher calls of r for id
ResultsOf(r, id) == {q \in DOMAIN r.results : r.results[q].id = id}

\* positions of the list of r whose item was neither completed nor failed
\* when r started
EligibleAtStart(r) == {k \in DOMAIN r.files : r.files[k].status \notin Terminal}

\* -------------------------------------------------------------- claims ----

\* C1 (batch isolation): when a batch run has ended, the dispatcher was
\* invoked for every item that was eligible at its start, whatever the
\* outcomes of the earlier items; each such item is completed if its call
\* returned a result and failed otherwise (in the last update emitted for it
\* and in the list, if the list still holds it); and the updates were
\* emitted in list order.
C1_BatchIsolation ==
    \A r \in EndedRuns :
        /\ \A k \in EligibleAtStart(r) :
              LET id == r.files[k].id IN
              /\ Cardinality(InvokesOf(r, id)) = 1
              /\ Cardinality(ResultsOf(r, id)) = 1
              /\ \A q \in ResultsOf(r, id) :
                    LET want == IF r.results[q].kind = "result"
                                    THEN "completed" ELSE "failed"
                    IN  /\ \E p \in TerminalUpdatesOf(r, id) :
                              /\ r.log[p][3] = want
                              /\ \A p2 \in UpdatesOf(r, id) : p2 <= p
                        /\ \A m \in ItemsWithId(id) : batchFiles[m].status = want
        /\ \A k1, k2 \in EligibleAtStart(r) :
              k1 < k2 =>
                 \A p1 \in EventsOf(r, r.files[k1].id),
                    p2 \in EventsOf(r, r.files[k2].id) : p1 < p2

\* C1 witness: a run has ended in which an item failed and a later item of
\* the list was completed, both still in the list
C1_Witness ==
    \E r \in EndedRuns :
        /\ r.runner = "App"
        /\ \E k1, k2 \in EligibleAtStart(r) :
              /\ k1 < k2
              /\ \E q \in ResultsOf(r, r.files[k1].id) : r.results[q].kind # "result"
              /\ \E q \in ResultsOf(r, r.files[k2].id) : r.results[q].kind = "result"
              /\ \E m \in ItemsWithId(r.files[k1].id) : batchFiles[m].status = "failed"
              /\ \E m \in ItemsWithId(r.files[k2].id) : batchFiles[m].status = "completed"

\* C2 (batch resume): in every batch run, an item that was completed or
\* failed when the run started gets no dispatcher call and no update, and
\* its entry in the list stays as it was; every other item gets at most one
\* call, exactly one by the end of the run.
C2_BatchResume ==
    \A r \in AllRuns :
        \A k \in DOMAIN r.files :
            LET id == r.files[k].id IN
            IF k \in EligibleAtStart(r)
              THEN /\ Cardinality(InvokesOf(r, id)) <= 1
                   /\ r \in EndedRuns => Cardinality(InvokesOf(r, id)) = 1
              ELSE /\ EventsOf(r, id) = {}
                   /\ \A m \in ItemsWithId(id) : batchFiles[m] = r.files[k]

\* C2 witness: a run has ended whose list held, at its start, a completed
\* item, a failed item or both next to an item it had to process
C2_Witness ==
    \E r \in EndedRuns :
        /\ \E k \in DOMAIN r.files : r.files[k].status = "failed"
        /\ \E k \in EligibleAtStart(r) : InvokesOf(r, r.files[k].id) # {}
        /\ \A k \in DOMAIN r.files : ItemsWithId(r.files[k].id) # {}

\* C3 (sequential batch): in every batch run a dispatcher call starts only
\* after every earlier eligible item has got its terminal update, at most
\* one call of the run awaits its result, and at most one item of the list
\* is processing.
C3_Sequential ==
    /\ \A r \in AllRuns :
          /\ \A k \in EligibleAtStart(r) :
                \A p \in InvokesOf(r, r.files[k].id) :
                   \A k0 \in EligibleAtStart(r) :
                      k0 < k =>
                         \E p0 \in TerminalUpdatesOf(r, r.files[k0].id) : p0 < p
          /\ Cardinality({k \in DOMAIN r.files :
                             /\ InvokesOf(r, r.files[k].id) # {}
                             /\ TerminalUpdatesOf(r, r.files[k].id) = {}}) <= 1
    /\ Cardinality({m \in DOMAIN batchFiles :
                       batchFiles[m].status = "processing"}) <= 1

\* C3 witness: the second call of a run is in flight: the first item has
\* its terminal status, the second is processing
C3_Witness ==
    \E r \in batchRuns :
        /\ r.i = 2
        /\ Len(r.results) = 1
        /\ Len(batchFiles) >= 2
        /\ batchFiles[1].status \in Terminal
        /\ batchFiles[2].status = "processing"

\* C4 (failure message): an item whose dispatcher call was rejected is
\* marked failed with the message of that rejection, in both runners.
C4_FailureMessage ==
    \A r \in AllRuns :
        \A q \in DOMAIN r.results :
            r.results[q].kind = "reject" =>
                \A m \in ItemsWithId(r.results[q].id) :
                    batchFiles[m].status = "failed" =>
                        batchFiles[m].error = r.results[q].msg

\* C5 (batch progress): in both runners, every dispatcher call of a run is
\* preceded by the processing update of its item and that update by a
\* progress update for the item, and a run that has ended has emitted the
\* progress-cleared signal last.
C5_ProgressOrder ==
    \A r \in AllRuns :
        /\ \A k \in DOMAIN r.files :
              \A p \in InvokesOf(r, r.files[k].id) :
                 \E p1, p2 \in DOMAIN r.log :
                    /\ p1 < p2 /\ p2 < p
                    /\ r.log[p1] = <<"progress", r.files[k].id>>
                    /\ r.log[p2] = <<"update", r.files[k].id, "processing">>
        /\ r \in EndedRuns =>
              /\ r.log # <<>>
              /\ r.log[Len(r.log)] = <<"clear">>

\* C6 (status transitions): an item of the list changes its status only
\* from pending to processing and from processing to completed or failed,
\* and only in a step of a batch runner.
C6_StatusTransitions ==
    [][\A m \in DOMAIN batchFiles :
          \A m2 \in DOMAIN batchFiles' :
             batchFiles[m].id = batchFiles'[m2].id =>
                \/ batchFiles'[m2].status = batchFiles[m].status
                \/ /\ batchRuns' # batchRuns
                   /\ \/ /\ batchFiles[m].status = "pending"
                         /\ batchFiles'[m2].status = "processing"
                      \/ /\ batchFiles[m].status = "processing"
                         /\ batchFiles'[m2].status \in Terminal]_vars

\* C6 witness: the App shows the results of a batch in which one item went
\* to completed and another to failed
C6_Witness ==
    /\ caller = "App"
    /\ stage = "batch-results"
    /\ \E m1, m2 \in DOMAIN batchFiles :
          /\ batchFiles[m1].status = "completed"
          /\ batchFiles[m2].status = "failed"

\* C7 (item fields): a completed item carries the output path its
\* dispatcher call returned, a failed item a non-empty error, a pending
\* item neither.
C7_ItemFields ==
    \A m \in DOMAIN batchFiles :
        LET f == batchFiles[m] IN
        /\ f.status = "completed" =>
              /\ f.processedPath # NULL
              /\ \A r \in AllRuns :
                    \A q \in ResultsOf(r, f.id) :
                       r.results[q].kind = "result" =>
                          f.processedPath = r.results[q].path
        /\ f.status = "failed" => f.error # NULL /\ f.error # ""
        /\ f.status = "pending" => f.processedPath = NULL /\ f.error = NULL

\* C7 witness: the list holds a completed item with the path of its call
\* and an item that failed in the same run
C7_Witness ==
    \E r \in AllRuns :
        /\ \E q \in DOMAIN r.results :
              /\ r.results[q].kind = "result"
              /\ \E m \in ItemsWithId(r.results[q].id) :
                    /\ batchFiles[m].status = "completed"
                    /\ batchFiles[m].processedPath = r.results[q].path
        /\ \E q \in DOMAIN r.results :
              /\ r.results[q].kind # "result"
              /\ \E m \in ItemsWithId(r.results[q].id) :
                    /\ batchFiles[m].status = "failed"
                    /\ batchFiles[m].error # NULL

\* C8 (progress destroyed): while no video run is in flight, no progress
\* record is observable.
C8_ProgressDestroyed == videoRuns = {} => videoProgress = <<>>

\* C9 (fresh progress): a video run starts with the fresh record (frame 0,
\* percent 0, no estimate), and while a run is in flight no record that
\* stems from an earlier run is observable.
C9_FreshProgress ==
    [][/\ \A v \in videoRuns' :
             (\A w \in videoRuns : w.call # v.call) =>
                 /\ videoProgress' # <<>>
                 /\ videoProgress'[1].current_frame = 0
                 /\ videoProgress'[1].percent = 0
                 /\ videoProgress'[1].estimated_remaining_secs = <<>>
       /\ \A v \in videoRuns' :
             \A k \in DOMAIN videoProgress' :
                 ~(videoProgress'[k].src < v.call)]_vars

\* C10 (video cancellation): a video run for which cancel was requested
\* ends without a result: the app is in the select stage, the polling timer
\* is stopped, no output path is recorded and no progress record is
\* observable.
C10_CancelEndsRun ==
    \A k \in DOMAIN lastVideo :
        lastVideo[k].cancelRequested =>
            /\ lastVideo[k].kind = "reject"
            /\ stage = "select"
            /\ progressIntervalRef = 0
            /\ processedPath = NULL
            /\ videoProgress = <<>>

\* C11 (video failure): a video run whose process_video call is rejected
\* has ended: processVideo resolved to no result, the message of the
\* rejection is the recorded error, the polling timer is stopped, the
\* progress record is cleared, isProcessing is false, and the app is in the
\* select stage and has not recorded the output path of that run.
C11_VideoFailure ==
    \A k \in DOMAIN lastVideo :
        lastVideo[k].kind = "reject" =>
            /\ \A v \in videoRuns : v.call # lastVideo[k].call
            /\ lastVideo[k].ret.value = <<>>
            /\ error = lastVideo[k].msg
            /\ progressIntervalRef = 0
            /\ videoProgress = <<>>
            /\ ~isProcessing
            /\ stage = "select"
            /\ processedPath # TempPath(lastVideo[k].call)

\* C11 witness: a video run has just failed with a processing error, with
\* no cancel requested
C11_Witness ==
    \E k \in DOMAIN lastVideo :
        /\ lastVideo[k].kind = "reject"
        /\ lastVideo[k].msg = ErrorMessage(lastVideo[k].call)
        /\ ~lastVideo[k].cancelRequested
        /\ error = lastVideo[k].msg
        /\ stage = "select"

\* C15 (failures are caught): a removeWatermark or processVideo call that
\* has settled has resolved, never rejected; if its backend call was
\* rejected it resolved to no result and the message of the rejection is
\* the recorded error; and isProcessing is false, whatever the outcome.
C15_FailuresCaught ==
    /\ \A k \in DOMAIN lastImage :
          /\ lastImage[k].ret.settled = "resolved"
          /\ lastImage[k].kind = "reject" =>
                /\ lastImage[k].ret.value = <<>>
                /\ error = ErrorMessage(lastImage[k].call)
          /\ ~isProcessing
    /\ \A k \in DOMAIN lastVideo :
          /\ lastVideo[k].ret.settled = "resolved"
          /\ lastVideo[k].kind = "reject" =>
                /\ lastVideo[k].ret.value = <<>>
                /\ error = lastVideo[k].msg
          /\ ~isProcessing

\* C15 witness: the backend call of a single-image removeWatermark has
\* just been rejected
C15_Witness ==
    \E k \in DOMAIN lastImage :
        /\ lastImage[k].kind = "reject"
        /\ error = ErrorMessage(lastImage[k].call)
        /\ ~isProcessing

\* C20 (cleanup at run end): in the step in which a run ends (single image,
\* batch or video), cleanup_temp_files is requested.
C20_CleanupAtRunEnd ==
    (finished # <<>> \/ lastVideo # <<>> \/ lastImage # <<>>) => cleanupRequested

\* ----------------------------------------------- reading a dispatch ----
InpaintingCommands == {"remove_watermark", "remove_watermark_cloud"}
Dispatches == {dispatched[k] : k \in DOMAIN dispatched}

\* the method a caller asked for: the one it gave, Local if it gave none
MethodAskedFor(given) ==
    IF "processing_method" \in DOMAIN given
        THEN given.processing_method
        ELSE "local"

\* C12 (credential before Cloud): under the user's actions in the App, no
\* remove_watermark_cloud call is dispatched while the credential store
\* holds no non-empty key.
C12_CloudNeedsCredential ==
    \A d \in Dispatches :
        (caller = "App" /\ d.command = "remove_watermark_cloud")
            => credential # ""

\* C13 (Cloud video rejected): no process_video call is dispatched for a
\* run started with method = Cloud.
C13_NoCloudVideo ==
    \A d \in Dispatches :
        d.command = "process_video" => MethodAskedFor(d.given) # "cloud"

\* C14 (routing, one call, no retry): a step dispatches at most one backend
\* call and gives it a fresh call number; an inpainting call is the Cloud
\* variant if and only if the method asked for (Local if none was given)
\* is Cloud, for single images and for every item of a batch; the step in
\* which a single-image call settles dispatches nothing, no item of a batch
\* run is invoked twice, and a batch run never dispatches a call for an
\* item that has already had its result.
C14_Routing ==
    /\ Len(dispatched) <= 1
    /\ \A d \in Dispatches :
          /\ d.call = ncalls
          /\ d.command \in InpaintingCommands =>
                (d.command = "remove_watermark_cloud"
                    <=> MethodAskedFor(d.given) = "cloud")
    /\ lastImage # <<>> => dispatched = <<>>
    /\ \A r \in AllRuns :
          /\ \A k \in DOMAIN r.files :
                Cardinality(InvokesOf(r, r.files[k].id)) <= 1
          /\ \A d \in Dispatches :
                (r \in batchRuns /\ d.call = r.call) =>
                    ResultsOf(r, r.files[r.i].id) = {}

\* C14 witness: a batch run asked for Cloud, its first call was rejected
\* and the call for its next item has just been dispatched as a Cloud call
C14_Witness ==
    \E r \in batchRuns, d \in Dispatches :
        /\ d.call = r.call
        /\ d.command = "remove_watermark_cloud"
        /\ Len(r.results) >= 1
        /\ r.results[1].kind = "reject"

\* C16 (one region per batch): every dispatcher call of a batch run was
\* given the region and the options that were selected when the run
\* started, also after the selection has changed and whatever the outcome
\* of earlier items; the call just dispatched carries them.
C16_BatchArgsFixed ==
    \A r \in AllRuns :
        /\ \A q \in DOMAIN r.args :
              /\ r.args[q].region = r.region
              /\ r.args[q].options = r.options
        /\ \A d \in Dispatches :
              (r \in batchRuns /\ d.call = r.call) =>
                  /\ d.region = r.region
                  /\ d.given = r.options

\* C16 witness: a batch run of the App has made two calls, the first of
\* them rejected, and the region selected now is no longer the one the run
\* started with
C16_Witness ==
    \E r \in AllRuns :
        /\ r.runner = "App"
        /\ Len(r.args) >= 2
        /\ r.results[1].kind = "reject"
        /\ selectedRegion # r.region

\* C17 (reported regions): every region the selector reports has integer
\* x >= 0 and y >= 0, width > 0 and height > 0 and lies within the media
\* (x + width <= media width, y + height <= media height); a drag whose
\* ends have the same x or the same y reports no region.
C17_RegionWellFormed ==
    \A k \in DOMAIN regionSelector.lastUp :
        LET u == regionSelector.lastUp[k]
            info == regionSelector.imageInfo
        IN  /\ \A q \in DOMAIN u.region :
                  LET r == u.region[q] IN
                  /\ r.x \in Nat /\ r.y \in Nat
                  /\ r.width \in Nat /\ r.height \in Nat
                  /\ r.width > 0 /\ r.height > 0
                  /\ r.x + r.width <= info.width
                  /\ r.y + r.height <= info.height
            /\ (u.start.x = u.current.x \/ u.start.y = u.current.y)
                  => u.region = <<>>

\* C17 witness: with the media scaled down, a drag that left the media on
\* the right has reported a region that ends at the media's right edge
C17_Witness ==
    \E k \in DOMAIN regionSelector.lastUp :
        LET u == regionSelector.lastUp[k] IN
        /\ regionSelector.scale # <<1, 1>>
        /\ \E q \in DOMAIN u.region :
              /\ u.region[q].x > 0
              /\ u.region[q].x + u.region[q].width
                    = regionSelector.imageInfo.width

C19_ShownWhenPositive ==
    /\ LET vp == videoProgressPanel
           n == vp.estimatedRemaining[1]
           d == vp.estimatedRemaining[2]
           want == vp.elapsedTime * (100 - vp.percent)
       IN  /\ d > 0 /\ n >= 0
           /\ vp.percent > 0 =>
                 n * vp.percent = d * (IF want < 0 THEN 0 ELSE want)
    /\ (videoProgressPanel.remaining # <<>>) <=> (videoProgressPanel.percent > 0)

\* C19 amended (remaining time): the estimate n/d is max(0, elapsed /
\* percent * 100 - elapsed) when percent > 0 and never negative, and it is
\* shown exactly when percent > 5: up to 5 percent the panel shows
\* 'Calculating...', and what it shows afterwards is the formatted
\* estimate.
C19_ShownAboveFive ==
    /\ LET vp == videoProgressPanel
           n == vp.estimatedRemaining[1]
           d == vp.estimatedRemaining[2]
           want == vp.elapsedTime * (100 - vp.percent)
       IN  /\ d > 0 /\ n >= 0
           /\ vp.percent > 0 =>
                 n * vp.percent = d * (IF want < 0 THEN 0 ELSE want)
    /\ (videoProgressPanel.remaining # <<>>) <=> (videoProgressPanel.percent > 5)
    /\ \A k \in DOMAIN videoProgressPanel.remaining :
          videoProgressPanel.remaining[k]
              = FormatTime(videoProgressPanel.estimatedRemaining)

\* C19 witness: at 6 percent after some seconds a positive estimate is
\* shown
C19_Witness ==
    /\ videoProgressPanel.percent = 6
    /\ videoProgressPanel.elapsedTime > 0
    /\ videoProgressPanel.estimatedRemaining[1] > 0
    /\ videoProgressPanel.remaining # <<>>

\* C21 (batch run completes): when a batch run ends, no item of the list
\* is pending or processing, the progress is cleared, isProcessing is
\* false and, for a run of the App, the stage is batch-results.
C21_RunEndState ==
    \A r \in EndedRuns :
        /\ \A m \in DOMAIN batchFiles :
              batchFiles[m].status \notin {"pending", "processing"}
        /\ batchProgress = <<>>
        /\ ~isProcessing
        /\ r.runner = "App" => stage = "batch-results"

C23_SaveBatchCopiesCompleted ==
    /\ copyRequested # <<>> =>
          \E s \in saveRuns :
              /\ s.slot = copyRequested[1].run
              /\ copyRequested[1].destinationPath[1] = s.destination
              /\ \E k \in DOMAIN s.files :
                    /\ s.files[k].id = copyRequested[1].id
                    /\ s.files[k].status = "completed"
                    /\ s.files[k].processedPath # NULL
                    /\ copyRequested[1].sourcePath = s.files[k].processedPath
              /\ \A k \in DOMAIN batchFiles :
                    batchFiles[k].id = copyRequested[1].id =>
                        batchFiles[k].status = "completed"
    /\ saveAlert # <<>> =>
          LET a == saveAlert[1]
              done == {k \in DOMAIN a.files :
                          /\ a.files[k].status = "completed"
                          /\ a.files[k].processedPath # NULL}
          IN  /\ Len(a.log) = Cardinality(done)
              /\ {a.log[j].request.id : j \in DOMAIN a.log} =
                     {a.files[k].id : k \in done}
              /\ \A j \in DOMAIN a.log : \E k \in done :
                    /\ a.log[j].request.id = a.files[k].id
                    /\ a.log[j].request.sourcePath = a.files[k].processedPath
              /\ a.savedCount <=
                     Cardinality({k \in DOMAIN a.files :
                                     a.files[k].status = "completed"})
              /\ a.savedCount =
                     Cardinality({j \in DOMAIN a.log : a.log[j].success})
              /\ a.allSaved => \A j \in DOMAIN a.log : a.log[j].success

\* Save All over a list with a failed and a completed item has copied the
\* completed one and reports all saved
C23_Witness ==
    /\ saveAlert # <<>>
    /\ \E k \in DOMAIN saveAlert[1].files :
          saveAlert[1].files[k].status = "failed"
    /\ Len(saveAlert[1].log) = 1
    /\ saveAlert[1].allSaved

\* C24: a batch holds image files only. Of a selection of several files
\* exactly the files with an image extension, in their order, are passed on
\* as the batch, so no video is; nothing is passed on if no image is among
\* them; a single selected file is passed on as a video exactly when its
\* extension is a video extension.
C24_BatchOfImagesOnly ==
    dropZone # <<>> =>
        LET selected == dropZone[1].selected
            called == dropZone[1].called
            images == {k \in DOMAIN selected :
                          PathExtension(selected[k]) \in IMAGE_EXTENSIONS}
        IN  /\ Len(selected) > 1 /\ images # {} =>
                  /\ called # <<>>
                  /\ called[1].callback = "onBatchSelect"
                  /\ Len(called[1].paths) = Cardinality(images)
                  /\ \A j \in DOMAIN called[1].paths :
                        /\ PathExtension(called[1].paths[j]) \in IMAGE_EXTENSIONS
                        /\ PathExtension(called[1].paths[j]) \notin VIDEO_EXTENSIONS
                        /\ \E k \in images :
                              /\ selected[k] = called[1].paths[j]
                              /\ Cardinality({i \in images : i < k}) = j - 1
            /\ Len(selected) > 1 /\ images = {} => called = <<>>
            /\ Len(selected) = 1 =>
                  /\ called # <<>>
                  /\ called[1].callback = "onMediaSelect"
                  /\ called[1].path = selected[1]
                  /\ called[1].type \in {"image", "video"}
                  /\ called[1].type = "video" <=>
                        PathExtension(selected[1]) \in VIDEO_EXTENSIONS
            /\ Len(selected) = 0 => called = <<>>

\* a video, an image and a video in upper case were selected together and
\* the image alone became the batch
C24_Witness ==
    /\ dropZone # <<>>
    /\ dropZone[1].selected = <<<<"in/c", "mp4">>, <<"in/b", "Jpg">>, <<"in/g", "MP4">>>>
    /\ dropZone[1].called = <<[callback |-> "onBatchSelect",
                               paths |-> <<<<"in/b", "Jpg">>>>]>>

\* C25: pressing Back while the stage is video-processing or
\* batch-processing changes nothing: the stage, the media, the region, the
\* results, the batch list and its progress, the options, the error, the
\* processing flag, the runs in flight and the polling timer all stay as
\* they are.
C25_BackChangesNothingWhileProcessing ==
    [][(stage \in {"video-processing", "batch-processing"} /\ HandleBack) =>
          UNCHANGED <<caller, stage, mediaType, imagePath, imageBase64,
                      imageInfo, selectedRegion, processedImage,
                      processedPath, originalSize, processedSize, batchFiles,
                      batchProgress, options, isSettingsOpen, isProcessing,
                      error, videoProgress, progressIntervalRef, intervals, hasApiKey,
                      batchRuns, imageRuns, videoRuns, polls, cancels,
                      keyChecks, credential, now, ncalls, saveRuns>>]_vars

\* Back was pressed right after a batch run sent its first command: the
\* run is where it was, only the record of the command sent is gone
C25_Witness ==
    /\ stage = "batch-processing"
    /\ dispatched = <<>>
    /\ finished = <<>>
    /\ ncalls = 1
    /\ \E r \in batchRuns : r.call = 1 /\ r.i = 1
    /\ batchProgress # <<>>
    /\ isProcessing

\* C26: at most one progress-polling timer runs, it is the one the ref
\* holds, and one runs only while a video run is in flight; none runs once
\* a video run has ended, with a result or with an error, once a
\* cancellation has been confirmed, or once the component is unmounted.
C26_OnePollingTimer ==
    [][/\ Cardinality(intervals') <= 1
       /\ intervals' \subseteq {progressIntervalRef'}
       /\ intervals' # {} => videoRuns' # {}
       /\ lastVideo' # <<>> => intervals' = {}
       /\ cancels'.acked < cancels.acked => intervals' = {}
       /\ caller' = NULL => intervals' = {}]_vars

\* the second backend call is a video run, and its own timer polls for it
C26_Witness ==
    /\ intervals = {2}
    /\ \E v \in videoRuns : v.call = 2
    /\ polls # {}
    /\ error = NULL

\* C27: every update of the batch progress has 1 <= currentIndex <=
\* totalFiles, totalFiles is the length of the batch list, currentFilename
\* is the name of the item of the list at currentIndex, and from one update
\* of a run to the next currentIndex grows.
C27_ProgressMatchesList ==
    [][/\ batchProgress' # <<>> =>
             /\ 1 <= batchProgress'[1].currentIndex
             /\ batchProgress'[1].currentIndex <= batchProgress'[1].totalFiles
             /\ batchProgress'[1].totalFiles = Len(batchFiles')
             /\ batchProgress'[1].currentFilename =
                    batchFiles'[batchProgress'[1].currentIndex].filename
       /\ (batchProgress # <<>> /\ batchProgress' # <<>>
             /\ batchProgress' # batchProgress) =>
             batchProgress'[1].currentIndex > batchProgress[1].currentIndex
      ]_vars

\* C28: the ids of the batch list are pairwise distinct in every reachable
\* state, and a step of a batch run, which updates the item whose call
\* settled and the item whose call starts, keeps the length and the ids of
\* the list and changes no other item; if neither id is in the list any
\* more, the list stays as it is.
C28_DistinctIdsLocalUpdates ==
    [][/\ \A i, j \in DOMAIN batchFiles' :
             i # j => batchFiles'[i].id # batchFiles'[j].id
       /\ (batchRuns' # batchRuns /\ caller' # NULL) =>
             LET targets == {r.files[r.i].id :
                                r \in {x \in batchRuns \cup batchRuns' :
                                          x.i \in DOMAIN x.files}}
             IN  /\ Len(batchFiles') = Len(batchFiles)
                 /\ \A k \in DOMAIN batchFiles :
                       /\ batchFiles'[k].id = batchFiles[k].id
                       /\ batchFiles[k].id \notin targets =>
                             batchFiles'[k] = batchFiles[k]
      ]_vars

\* a run that outlived its list has had a call settled and started the
\* next while another list is shown: no item of that list has changed
C28_Witness ==
    \E r \in batchRuns :
        /\ r.runner = "App"
        /\ r.i = 2
        /\ Len(r.results) = 1
        /\ Len(batchFiles) = 2
        /\ \A k \in DOMAIN batchFiles :
              /\ batchFiles[k].status = "pending"
              /\ \A m \in DOMAIN r.files : r.files[m].id # batchFiles[k].id

\* C29: at most one backend processing call (remove_watermark,
\* remove_watermark_cloud, process_video) is in flight at any time, whatever
\* the user does: after New Image during a batch or video run, no run on
\* newly selected media starts before the call in flight has returned.
C29_OneCallInFlight ==
    Cardinality({r \in batchRuns : r.call # 0}) + Cardinality(imageRuns)
        + Cardinality(videoRuns) <= 1

\* New Image was pressed during a batch run and a video with a region is
\* selected while the call of the run is still in flight
C29_Witness ==
    /\ \E r \in batchRuns : r.runner = "App" /\ r.call # 0
    /\ stage = "select"
    /\ mediaType = "video"
    /\ selectedRegion # NULL
    /\ imageRuns = {} /\ videoRuns = {}

\* C30: isProcessing is true whenever a backend processing call is in
\* flight, and false when no processing call is in flight and no batch run
\* is pending.
C30_ProcessingFlag ==
    /\ ({r \in batchRuns : r.call # 0} # {} \/ imageRuns # {}
           \/ videoRuns # {}) => isProcessing
    /\ (batchRuns = {} /\ imageRuns = {} /\ videoRuns = {}) => ~isProcessing

\* a video run that was left with New Image has failed: nothing is in
\* flight and the flag is down
C30_Witness ==
    /\ lastVideo # <<>>
    /\ error # NULL
    /\ imagePath = NullPath
    /\ batchRuns = {} /\ imageRuns = {} /\ videoRuns = {}
    /\ ~isProcessing

\* C31: in every reachable state, when the stage is select, batch-select or
\* preview the media of the stage is loaded (imageInfo and the image shown
\* are present), and when the stage is preview an output path is recorded.
C31_StageHasItsData ==
    /\ stage \in {"select", "batch-select", "preview"} =>
          imageInfo # NULL /\ imageBase64 # NULL
    /\ stage = "preview" => processedPath # NULL

\* C32: a Reset (New Image) leaves the App in its initial state: stage
\* upload, no media, no region, no result, an empty batch list, no batch
\* progress and no error; and while the stage is upload the completion of a
\* single-image, batch or video run changes neither the stage nor the
\* recorded output path.
C32_ResetStays ==
    [][/\ (cleanupRequested' /\ caller' # NULL) =>
             /\ stage' = "upload"
             /\ imagePath' = NullPath
             /\ imageInfo' = NULL /\ imageBase64' = NULL
             /\ selectedRegion' = NULL
             /\ processedImage' = NULL /\ processedPath' = NULL
             /\ batchFiles' = <<>> /\ batchProgress' = <<>>
             /\ error' = NULL
       /\ (/\ stage = "upload"
           /\ caller' # NULL
           /\ \/ imageRuns' # imageRuns
              \/ videoRuns' # videoRuns
              \/ batchRuns' # batchRuns) =>
             stage' = "upload" /\ processedPath' = processedPath
      ]_vars

\* C33: once cleanup_temp_files has been requested the UI holds no scratch
\* path produced by a call that was issued before the request: processedPath
\* is none of them, no batch item carries one, and no copy request of Save
\* All hands one off.
C33_NoPathFromBeforeCleanup ==
    LET cleaned == {TempPath(n) : n \in 1..cleanedCalls}
    IN  /\ processedPath \notin cleaned
        /\ \A k \in DOMAIN batchFiles : batchFiles[k].processedPath \notin cleaned
        /\ copyRequested # <<>> => copyRequested[1].sourcePath \notin cleaned

\* C34: Save All writes every completed item to its own destination: the
\* destination paths of two copy requests of one Save All differ, and the
\* saved count it reports is the number of distinct files written.
C34_OwnDestination ==
    saveAlert # <<>> =>
        LET log == saveAlert[1].log
        IN  /\ \A i, j \in DOMAIN log :
                  i # j => log[i].request.destinationPath #
                               log[j].request.destinationPath
            /\ saveAlert[1].savedCount =
                  Cardinality({log[i].request.destinationPath :
                                  i \in {j \in DOMAIN log : log[j].success}})

\* C35: running a batch again after its run has finished (back from
\* batch-results to batch-select, a region selected, Process All) invokes the
\* dispatcher for no file: every item of a list that holds a result is
\* completed or failed and is skipped, the list with its processed paths
\* stays as the earlier run left it, and the App is in batch-results again.
C35_RerunSkipsEverything ==
    [][(/\ HandleProcessBatch
        /\ \E k \in DOMAIN batchFiles :
              batchFiles[k].status \in {"completed", "failed"}) =>
          /\ \A k \in DOMAIN batchFiles :
                batchFiles[k].status \in {"completed", "failed"}
          /\ dispatched' = <<>>
          /\ ncalls' = ncalls
          /\ batchRuns' = batchRuns
          /\ batchFiles' = batchFiles
          /\ batchProgress' = <<>>
          /\ stage' = "batch-results"
          /\ finished' # <<>> /\ finished'[1].args = <<>>
      ]_vars

\* a run started with the second region over a list whose two items were
\* processed before (one completed with the path of the first call, one
\* failed) has ended without a call
C35_Witness ==
    /\ finished # <<>>
    /\ finished[1].args = <<>>
    /\ finished[1].region = "r2"
    /\ stage = "batch-results"
    /\ Len(batchFiles) = 2
    /\ batchFiles[1].status = "completed"
    /\ batchFiles[1].processedPath = TempPath(1)
    /\ batchFiles[2].status = "failed"
    /\ ncalls = 2

====
